---- MODULE Spec2Model ----
(***************************************************************************)
(* Throtl: the Prometheus exposition parser, the histogram percentile      *)
(* estimator, the snapshot assembly of VLLMCollector.collect and the       *)
(* recommendation engine, as state machines over bounded inputs.           *)
(*                                                                         *)
(* Strings are TLA+ strings; positions are Python's (0-based, a slice      *)
(* s[a:b] is Slice(s, a, b)).  A float is a record [k, n, d]: k = "fin"    *)
(* is the rational n/d in lowest terms with d > 0, k = "inf" is the        *)
(* infinity of sign n, k = "nan" is NaN; a Python int is the record with   *)
(* k = "int".  Arithmetic is exact on the rationals (no rounding) and      *)
(* follows IEEE 754 on the special values.                                 *)
(***************************************************************************)
EXTENDS Integers, Sequences, FiniteSets, TLC

VARIABLES
    pc,             \* position of the running call
    text,           \* parse_prometheus_text: the argument
    lines,          \* parse_prometheus_text: text.strip().split("\n")
    lineNo,         \* parse_prometheus_text: index of the next line of the loop
    families,       \* parse_prometheus_text: families
    current_type,   \* parse_prometheus_text: current_type
    current_help,   \* parse_prometheus_text: current_help
    exc,            \* the exception that left the running call, or "none"
    percentile,     \* get_histogram_percentile: the argument
    result,         \* get_histogram_percentile: the values returned, per call
    gpu_stats,      \* VLLMCollector.collect: what self._gpu.read() returned
    snapshot,       \* VLLMCollector.collect: the InferenceSnapshot returned
    current,        \* analyze: the argument current
    history,        \* analyze: the argument history
    recs,           \* analyze: the list returned
    suggestions,    \* advise: the list returned
    before,         \* compare: the argument before
    after,          \* compare: the argument after
    report,         \* compare: the ComparisonReport returned
    store,          \* the MetricsStore (the rows of its table snapshots), or None
    saves,          \* MetricsStore: the number of calls of save
    loaded,         \* MetricsStore: what the last get_recent returned
    server,         \* MockVLLMServer: the fields of the instance
    consecutive_errors, \* run_dashboard, run_jsonl: consecutive_errors
    driver,         \* the polling driver that runs, or "none"
    collected       \* the number of calls of collect that returned

vars == <<pc, text, lines, lineNo, families, current_type, current_help, exc,
          percentile, result, gpu_stats, snapshot, current, history, recs,
          suggestions, before, after, report, store, saves, loaded, server,
          consecutive_errors, driver, collected>>

\* The variables of advise and of compare.
engine == <<suggestions, before, after, report>>

\* The variables of the store, of the mock server and of the polling
\* drivers.
polling == <<store, saves, loaded, server, consecutive_errors, driver,
             collected>>

\* Python's None.
None == [k |-> "None"]

-----------------------------------------------------------------------------
(* Python str operations                                                   *)

\* The character at 0-based position i of s ("" past the end).
CharAt(s, i) == IF i >= 0 /\ i < Len(s) THEN SubSeq(s, i + 1, i + 1) ELSE ""

Min2(a, b) == IF a < b THEN a ELSE b

Max2(a, b) == IF a > b THEN a ELSE b

\* A slice bound as Python resolves it: negative counts from the end, then
\* it is clamped into 0..len.
SliceIndex(s, i) == IF i < 0 THEN Max2(Len(s) + i, 0) ELSE Min2(i, Len(s))

\* s[a:b]
Slice(s, a, b) == SubSeq(s, SliceIndex(s, a) + 1, SliceIndex(s, b))

\* s[a:]
SliceFrom(s, a) == SubSeq(s, SliceIndex(s, a) + 1, Len(s))

\* str.isspace of one character (the ASCII whitespace).
IsSpace(c) == c \in {" ", "\t", "\n", "\r", "\f"}

RECURSIVE LStrip(_)
LStrip(s) ==
    IF s # "" /\ IsSpace(CharAt(s, 0)) THEN LStrip(SliceFrom(s, 1)) ELSE s

RECURSIVE RStrip(_)
RStrip(s) ==
    IF s # "" /\ IsSpace(CharAt(s, Len(s) - 1))
    THEN RStrip(SubSeq(s, 1, Len(s) - 1))
    ELSE s

\* str.strip()
Strip(s) == LStrip(RStrip(s))

\* str.startswith
StartsWith(s, p) == Len(p) <= Len(s) /\ SubSeq(s, 1, Len(p)) = p

\* str.endswith
EndsWith(s, p) ==
    Len(p) <= Len(s) /\ SubSeq(s, Len(s) - Len(p) + 1, Len(s)) = p

\* str.find(c, start) for a one-character c: the first position >= start
\* holding c, or -1.
RECURSIVE Find(_, _, _)
Find(s, c, start) ==
    IF start >= Len(s) THEN -1
    ELSE IF CharAt(s, start) = c THEN start
    ELSE Find(s, c, start + 1)

\* str.split(sep) for a one-character sep, the first sep being at position
\* at (-1: none): always at least one part.
RECURSIVE SplitAt(_, _, _)
SplitAt(s, sep, at) ==
    IF at = -1 THEN <<s>>
    ELSE <<Slice(s, 0, at)>>
         \o SplitAt(SliceFrom(s, at + 1), sep, Find(SliceFrom(s, at + 1), sep, 0))

SplitOn(s, sep) == SplitAt(s, sep, Find(s, sep, 0))

\* str.split(sep, 1): cut at the first sep only, which is at position at.
SplitOnceAt(s, at) ==
    IF at = -1 THEN <<s>> ELSE <<Slice(s, 0, at), SliceFrom(s, at + 1)>>

SplitOnce(s, sep) == SplitOnceAt(s, Find(s, sep, 0))

\* The first position >= start of s holding whitespace, or Len(s).
RECURSIVE TokenEnd(_, _)
TokenEnd(s, start) ==
    IF start >= Len(s) \/ IsSpace(CharAt(s, start)) THEN start
    ELSE TokenEnd(s, start + 1)

\* str.split() of a string t that starts with no whitespace, its first
\* token ending at e: the maximal runs of non-whitespace, possibly none.
RECURSIVE SplitTokens(_, _)
SplitTokens(t, e) ==
    IF t = "" THEN <<>>
    ELSE <<Slice(t, 0, e)>>
         \o SplitTokens(LStrip(SliceFrom(t, e)),
                        TokenEnd(LStrip(SliceFrom(t, e)), 0))

\* str.split()
SplitWs(s) == SplitTokens(LStrip(s), TokenEnd(LStrip(s), 0))

-----------------------------------------------------------------------------
(* Python float                                                            *)

RECURSIVE Gcd(_, _)
Gcd(a, b) == IF b = 0 THEN a ELSE Gcd(b, a % b)

Abs(a) == IF a < 0 THEN -a ELSE a

Reduced(n, d, g) ==
    IF d < 0 THEN [k |-> "fin", n |-> -(n \div g), d |-> -(d \div g)]
    ELSE [k |-> "fin", n |-> n \div g, d |-> d \div g]

\* The rational n/d (d # 0) in lowest terms with a positive denominator.
Rat(n, d) == Reduced(n, d, Gcd(Abs(n), Abs(d)))

Num(n) == [k |-> "fin", n |-> n, d |-> 1]

\* The Python int n.
PyInt(n) == [k |-> "int", n |-> n, d |-> 1]

Inf(sign) == [k |-> "inf", n |-> sign, d |-> 1]

NaN == [k |-> "nan", n |-> 0, d |-> 1]

IsFloat(v) == v.k \in {"fin", "inf", "nan"}

IsInt(v) == v.k = "int"

\* v is a finite number equal to zero.
IsZero(v) == v.k \in {"fin", "int"} /\ v.n = 0

Sign(v) == IF v.n > 0 THEN 1 ELSE IF v.n < 0 THEN -1 ELSE 0

FNeg(a) == IF a.k = "nan" THEN NaN ELSE [a EXCEPT !.n = -a.n]

\* The sum or product r of a and b: an int when both are ints.
IntOrFloat(a, b, r) == IF a.k = "int" /\ b.k = "int" THEN PyInt(r.n) ELSE r

\* a + b
FAdd(a, b) ==
    IF a.k = "nan" \/ b.k = "nan" THEN NaN
    ELSE IF a.k = "inf" /\ b.k = "inf"
         THEN (IF a.n = b.n THEN a ELSE NaN)
    ELSE IF a.k = "inf" THEN a
    ELSE IF b.k = "inf" THEN b
    ELSE IntOrFloat(a, b, Rat(a.n * b.d + b.n * a.d, a.d * b.d))

\* a - b
FSub(a, b) == FAdd(a, FNeg(b))

\* a * b
FMul(a, b) ==
    IF a.k = "nan" \/ b.k = "nan" THEN NaN
    ELSE IF a.k = "inf" \/ b.k = "inf"
         THEN (IF Sign(a) * Sign(b) = 0 THEN NaN ELSE Inf(Sign(a) * Sign(b)))
    ELSE IntOrFloat(a, b, Rat(a.n * b.n, a.d * b.d))

\* a / b; Python raises ZeroDivisionError on a zero divisor.
FDiv(a, b) ==
    IF IsZero(b) THEN [k |-> "ZeroDivisionError"]
    ELSE IF a.k = "nan" \/ b.k = "nan" THEN NaN
    ELSE IF a.k = "inf" /\ b.k = "inf" THEN NaN
    ELSE IF a.k = "inf" THEN Inf(Sign(a) * Sign(b))
    ELSE IF b.k = "inf" THEN Num(0)
    ELSE Rat(a.n * b.d, a.d * b.n)

\* a < b; every comparison with NaN is false.
FLt(a, b) ==
    /\ a.k # "nan"
    /\ b.k # "nan"
    /\ IF a.k = "inf" THEN a.n < 0 /\ ~(b.k = "inf" /\ b.n < 0)
       ELSE IF b.k = "inf" THEN b.n > 0
       ELSE a.n * b.d < b.n * a.d

FGt(a, b) == FLt(b, a)

\* a == b
FEq(a, b) ==
    /\ a.k # "nan"
    /\ b.k # "nan"
    /\ IF a.k = "inf" \/ b.k = "inf" THEN a = b
       ELSE a.n = b.n /\ a.d = b.d

FGe(a, b) == FGt(a, b) \/ FEq(a, b)

FLe(a, b) == FLt(a, b) \/ FEq(a, b)

\* max(a, b): the first argument unless the second is greater.
FMax(a, b) == IF FGt(b, a) THEN b ELSE a

\* bool(v) of a float or None.
Truthy(v) == v # None /\ ~IsZero(v)

\* A default of -1 in place of 0.
OrMinusOne(v) == IF Truthy(v) THEN v ELSE PyInt(-1)

\* v or 0
OrZero(v) == IF Truthy(v) THEN v ELSE PyInt(0)

\* int(v): truncation toward zero; NaN and the infinities raise.
ToInt(v) ==
    IF v.k = "nan" THEN [k |-> "ValueError"]
    ELSE IF v.k = "inf" THEN [k |-> "OverflowError"]
    ELSE IF v.n >= 0 THEN PyInt(v.n \div v.d)
    ELSE PyInt(-((-v.n) \div v.d))

\* float(v) of an int.
ToFloat(v) == Num(v.n)

Digits == "0123456789"

DigitChars == {CharAt(Digits, i) : i \in 0..9}

IsDigit(c) == c \in DigitChars

RECURSIVE AllDigits(_)
AllDigits(s) == s = "" \/ (IsDigit(CharAt(s, 0)) /\ AllDigits(SliceFrom(s, 1)))

RECURSIVE Pow10(_)
Pow10(n) == IF n = 0 THEN 1 ELSE 10 * Pow10(n - 1)

\* The value of a string of decimal digits ("" is 0).
RECURSIVE DigitsValue(_)
DigitsValue(s) ==
    IF s = "" THEN 0
    ELSE 10 * DigitsValue(SubSeq(s, 1, Len(s) - 1))
         + Find(Digits, CharAt(s, Len(s) - 1), 0)

UpperLetters == "ABCDEFGHIJKLMNOPQRSTUVWXYZ"

LowerLetters == "abcdefghijklmnopqrstuvwxyz"

\* The lower-case form of each upper-case letter.
LowerOf == [c \in {CharAt(UpperLetters, i) : i \in 0..25} |->
               CharAt(LowerLetters, Find(UpperLetters, c, 0))]

LowerChar(c) == IF c \in DOMAIN LowerOf THEN LowerOf[c] ELSE c

\* str.lower() (ASCII)
RECURSIVE Lower(_)
Lower(s) ==
    IF s = "" THEN ""
    ELSE LowerChar(CharAt(s, 0)) \o Lower(SliceFrom(s, 1))

\* The decimal number sign * whole.frac, or a ValueError.
ParseDecimal(sign, whole, frac) ==
    IF AllDigits(whole) /\ AllDigits(frac) /\ whole \o frac # ""
    THEN Rat(sign * (DigitsValue(whole) * Pow10(Len(frac)) + DigitsValue(frac)),
             Pow10(Len(frac)))
    ELSE [k |-> "ValueError"]

\* float() of the unsigned part, its first point at position point.
ParseUnsigned(sign, body, low, point) ==
    IF low \in {"inf", "infinity"} THEN Inf(sign)
    ELSE IF low = "nan" THEN NaN
    ELSE IF point = -1 THEN ParseDecimal(sign, body, "")
    ELSE ParseDecimal(sign, Slice(body, 0, point), SliceFrom(body, point + 1))

ParseSigned(sign, body) ==
    ParseUnsigned(sign, body, Lower(body), Find(body, ".", 0))

ParseStripped(s) ==
    IF CharAt(s, 0) = "-" THEN ParseSigned(-1, SliceFrom(s, 1))
    ELSE IF CharAt(s, 0) = "+" THEN ParseSigned(1, SliceFrom(s, 1))
    ELSE ParseSigned(1, s)

\* float(str): an optional sign, then inf, infinity or nan in any case, or
\* decimal digits with at most one point and a digit on one side of it.
\* Anything else is a ValueError.  (Exponents and digit-group underscores,
\* which float() also reads, are outside the inputs explored.)
ParseFloat(str) == ParseStripped(Strip(str))

-----------------------------------------------------------------------------
(* prometheus_parser.py                                                    *)

\* MetricSample
MetricSample(name, labels, value) ==
    [name |-> name, labels |-> labels, value |-> value]

\* MetricFamily
MetricFamily(name, metric_type, help_text) ==
    [name |-> name, metric_type |-> metric_type, help_text |-> help_text,
     samples |-> <<>>]

\* The empty dict.
EmptyDict == <<>>

\* d.get(key, default)
DictGet(d, key, default) == IF key \in DOMAIN d THEN d[key] ELSE default

\* d[key] = value
DictSet(d, key, value) == (key :> value) @@ d

WordChars ==
    {CharAt(LowerLetters, i) : i \in 0..25}
    \cup {CharAt(UpperLetters, i) : i \in 0..25}
    \cup DigitChars \cup {"_"}

\* \w of one character (ASCII).
IsWordChar(c) == c \in WordChars

\* The first position >= start of s that holds no word character, or Len(s).
RECURSIVE WordEnd(_, _)
WordEnd(s, start) ==
    IF start >= Len(s) \/ ~IsWordChar(CharAt(s, start)) THEN start
    ELSE WordEnd(s, start + 1)

\* _LABEL_RE.findall(s) from position start: the non-overlapping matches of
\* (\w+)="([^"]*)", left to right, as <<key, value>> pairs.
RECURSIVE LabelFindAll(_, _)

\* A match attempt at a word character at start: the word ends at e, and the
\* first quote after =" is at close.
LabelMatch(s, start, e, close) ==
    IF CharAt(s, e) = "=" /\ CharAt(s, e + 1) = "\"" /\ close # -1
    THEN <<<<Slice(s, start, e), Slice(s, e + 2, close)>>>>
         \o LabelFindAll(s, close + 1)
    ELSE LabelFindAll(s, start + 1)

LabelFindAll(s, start) ==
    IF start >= Len(s) THEN <<>>
    ELSE IF ~IsWordChar(CharAt(s, start)) THEN LabelFindAll(s, start + 1)
    ELSE LabelMatch(s, start, WordEnd(s, start),
                    Find(s, "\"", WordEnd(s, start) + 2))

\* dict(pairs): a later pair replaces an earlier one with the same key.
RECURSIVE DictOf(_)
DictOf(pairs) ==
    IF pairs = <<>> THEN EmptyDict
    ELSE DictSet(DictOf(SubSeq(pairs, 1, Len(pairs) - 1)),
                 pairs[Len(pairs)][1], pairs[Len(pairs)][2])

parse_labels(label_str) ==
    IF label_str = "" THEN EmptyDict ELSE DictOf(LabelFindAll(label_str, 0))

\* The suffixes of the base-name loop, in the order it tries them.
Suffixes == <<"_total", "_bucket", "_sum", "_count", "_created">>

\* The base family name of a sample name: the loop over Suffixes, leaving at
\* the first one the name ends with.
RECURSIVE BaseNameFrom(_, _)
BaseNameFrom(name, i) ==
    IF i > Len(Suffixes) THEN name
    ELSE IF EndsWith(name, Suffixes[i])
         THEN Slice(name, 0, -Len(Suffixes[i]))
         ELSE BaseNameFrom(name, i + 1)

\* A base-name loop that goes on stripping what is left (no break, and
\* the remainder fed back).
RECURSIVE BaseNameStripAll(_)
BaseNameStripAll(name) ==
    IF BaseNameFrom(name, 1) = name THEN name
    ELSE BaseNameStripAll(BaseNameFrom(name, 1))

BaseName(name) == BaseNameFrom(name, 1)

\* A sample line with a label block from brace_start to brace_end and the
\* tokens rest behind it: no token is an IndexError ([0] of an empty split).
BracedFields(line, brace_start, brace_end, rest) ==
    IF rest = <<>> THEN [kind |-> "IndexError"]
    ELSE [kind |-> "sample",
          name |-> Slice(line, 0, brace_start),
          label_str |-> Slice(line, brace_start + 1, brace_end),
          value_str |-> rest[1]]

BracedLine(line, brace_start, brace_end) ==
    BracedFields(line, brace_start, brace_end,
                 SplitWs(Strip(SliceFrom(line, brace_end + 1))))

\* A sample line without a label block, split into parts: fewer than two
\* parts is skipped.
PlainFields(parts) ==
    IF Len(parts) < 2 THEN [kind |-> "skip"]
    ELSE [kind |-> "sample", name |-> parts[1], label_str |-> "",
          value_str |-> parts[2]]

SampleFieldsAt(line, brace_start) ==
    IF brace_start # -1
    THEN BracedLine(line, brace_start, Find(line, "}", brace_start))
    ELSE PlainFields(SplitWs(line))

\* The name, label block and value token of a sample line, or why there is
\* none: "skip" or "IndexError".
SampleFields(line) == SampleFieldsAt(line, Find(line, "{", 0))

\* The family base_name gets a sample: it is created on its first sample.
FamilyOf(st, base_name) ==
    IF base_name \in DOMAIN st.families THEN st.families[base_name]
    ELSE MetricFamily(base_name,
                      DictGet(st.current_type, base_name, "untyped"),
                      DictGet(st.current_help, base_name, ""))

\* The sample goes to the head of the family's list.
PrependSample(st, base_name, family, sample) ==
    [st EXCEPT !.families =
        DictSet(st.families, base_name,
                [family EXCEPT !.samples = <<sample>> \o family.samples])]

AppendSample(st, base_name, family, sample) ==
    [st EXCEPT !.families =
        DictSet(st.families, base_name,
                [family EXCEPT !.samples = Append(family.samples, sample)])]

AddSampleTo(st, base_name, sample) ==
    AppendSample(st, base_name, FamilyOf(st, base_name), sample)

\* families after an accepted sample, a new family taking the type and
\* help text recorded under the sample's own name.
AddSampleTypedByName(st, name, labels, value) ==
    AppendSample(st, BaseName(name),
                 IF BaseName(name) \in DOMAIN st.families
                 THEN st.families[BaseName(name)]
                 ELSE MetricFamily(BaseName(name),
                                   DictGet(st.current_type, name, "untyped"),
                                   DictGet(st.current_help, name, "")),
                 MetricSample(name, labels, value))

\* families after an accepted sample.
AddSample(st, name, labels, value) ==
    AddSampleTo(st, BaseName(name), MetricSample(name, labels, value))

\* A "# HELP " or "# TYPE " line, split into parts: the directive is
\* recorded when a name and a text follow.
DirectiveOf(d, parts) ==
    IF Len(parts) = 2 THEN DictSet(d, parts[1], parts[2]) ELSE d

Directive(d, line) == DirectiveOf(d, SplitOnce(SliceFrom(line, 7), " "))

\* A sample with fields f and value value: a value float() rejects is
\* skipped.
AcceptSample(st, f, value) ==
    IF value.k = "ValueError" THEN st
    ELSE AddSample(st, f.name, parse_labels(f.label_str), value)

SampleLine(st, f) ==
    IF f.kind = "IndexError" THEN [st EXCEPT !.exc = "IndexError"]
    ELSE IF f.kind = "skip" THEN st
    ELSE AcceptSample(st, f, ParseFloat(f.value_str))

\* The body of the loop on a stripped line.
ParseStrippedLine(st, line) ==
    IF line = "" THEN st
    ELSE IF StartsWith(line, "# HELP ")
         THEN [st EXCEPT !.current_help = Directive(st.current_help, line)]
    ELSE IF StartsWith(line, "# TYPE ")
         THEN [st EXCEPT !.current_type = Directive(st.current_type, line)]
    ELSE IF StartsWith(line, "#") THEN st
    ELSE SampleLine(st, SampleFields(line))

\* One pass of the loop over the lines, on the state
\* [families, current_type, current_help, exc].
ParseLine(st, raw) == ParseStrippedLine(st, Strip(raw))

\* text.strip().split("\n")
Lines(t) == SplitOn(Strip(t), "\n")

ParseStart ==
    [families |-> EmptyDict, current_type |-> EmptyDict,
     current_help |-> EmptyDict, exc |-> "none"]

\* The loop from line i on; an exception ends it.
RECURSIVE ParseFrom(_, _, _)
ParseFrom(st, ls, i) ==
    IF i > Len(ls) \/ st.exc # "none" THEN st
    ELSE ParseFrom(ParseLine(st, ls[i]), ls, i + 1)

\* parse_prometheus_text(t): [exc, families]; families is the value
\* returned when exc = "none".
parse_prometheus_text(t) == ParseFrom(ParseStart, Lines(t), 1)

-----------------------------------------------------------------------------
(* get_gauge, get_counter, get_histogram_percentile                        *)

\* A family that is there and has samples is read at its first sample.
get_gauge(fams, name) ==
    IF name \in DOMAIN fams /\ fams[name].samples # <<>>
    THEN fams[name].samples[1].value
    ELSE None

\* The first sample of the list, from position i on, named *_total or name.
RECURSIVE FirstCounterSample(_, _, _)
FirstCounterSample(samples, name, i) ==
    IF i > Len(samples) THEN None
    ELSE IF EndsWith(samples[i].name, "_total") \/ samples[i].name = name
         THEN samples[i].value
         ELSE FirstCounterSample(samples, name, i + 1)

get_counter(fams, name) ==
    IF name \in DOMAIN fams THEN FirstCounterSample(fams[name].samples, name, 1)
    ELSE None

\* A _bucket sample whose le label, not "+Inf", float() reads as bound: a
\* ValueError is caught and the sample passed over.
ScanBound(acc, sample, bound) ==
    IF bound.k = "ValueError" THEN acc
    ELSE [acc EXCEPT !.buckets = Append(@, <<bound, sample.value>>)]

\* A _bucket sample with an le label.
ScanBucket(acc, sample, le) ==
    IF le # "+Inf" THEN ScanBound(acc, sample, ParseFloat(le))
    ELSE [acc EXCEPT !.total_count = sample.value]

\* A scan in which a _count sample sets the total count only when no
\* sample has set it before.
ScanSampleCountFirstOnly(acc, sample) ==
    IF EndsWith(sample.name, "_bucket")
    THEN IF "le" \in DOMAIN sample.labels
         THEN ScanBucket(acc, sample, sample.labels["le"])
         ELSE acc
    ELSE IF EndsWith(sample.name, "_count") /\ acc.total_count = None
         THEN [acc EXCEPT !.total_count = sample.value]
    ELSE acc

\* One pass of the loop over the family's samples, on the scan state
\* [buckets, total_count]; a _bucket sample without an le label is passed
\* over.
ScanSample(acc, sample) ==
    IF EndsWith(sample.name, "_bucket")
    THEN IF "le" \in DOMAIN sample.labels
         THEN ScanBucket(acc, sample, sample.labels["le"])
         ELSE acc
    ELSE IF EndsWith(sample.name, "_count")
         THEN [acc EXCEPT !.total_count = sample.value]
    ELSE acc

\* The loop over the samples from position i on.
RECURSIVE ScanSamples(_, _, _)
ScanSamples(acc, samples, i) ==
    IF i > Len(samples) THEN acc
    ELSE ScanSamples(ScanSample(acc, samples[i]), samples, i + 1)

\* sorted with b put in: before the first bucket whose boundary is greater
\* (the sort is stable).
RECURSIVE InsertBucket(_, _)
InsertBucket(sorted, b) ==
    IF sorted = <<>> THEN <<b>>
    ELSE IF FLt(b[1], sorted[1][1]) THEN <<b>> \o sorted
    ELSE <<sorted[1]>> \o InsertBucket(Tail(sorted), b)

\* buckets.sort(key=lambda x: x[0])
RECURSIVE SortBuckets(_)
SortBuckets(buckets) ==
    IF buckets = <<>> THEN <<>>
    ELSE InsertBucket(SortBuckets(SubSeq(buckets, 1, Len(buckets) - 1)),
                      buckets[Len(buckets)])

\* prev_bound + fraction * (bound - prev_bound); a division by zero leaves
\* with its exception.
Interpolated(prev_bound, bound, fraction) ==
    IF fraction.k = "ZeroDivisionError" THEN fraction
    ELSE FAdd(prev_bound, FMul(fraction, FSub(bound, prev_bound)))

\* An interpolation that starts every bucket at 0 instead of at the
\* previous boundary.
InterpolateFromZero(target, prev_bound, prev_count, bound, count) ==
    Interpolated(Num(0), bound,
                 FDiv(FSub(target, prev_count),
                      FMax(Num(1), FSub(count, prev_count))))

\* An interpolation that takes the share of the bucket above the target
\* instead of the share below it.
InterpolateInverted(target, prev_bound, prev_count, bound, count) ==
    Interpolated(prev_bound, bound,
                 FDiv(FSub(count, target),
                      FMax(Num(1), FSub(count, prev_count))))

\* An interpolation whose denominator is not floored at 1.
InterpolateNoFloor(target, prev_bound, prev_count, bound, count) ==
    Interpolated(prev_bound, bound,
                 FDiv(FSub(target, prev_count), FSub(count, prev_count)))

\* Linear interpolation within the bucket <<bound, count>>.
Interpolate(target, prev_bound, prev_count, bound, count) ==
    Interpolated(prev_bound, bound,
                 FDiv(FSub(target, prev_count),
                      FMax(Num(1), FSub(count, prev_count))))

\* The loop over the sorted buckets from position i on; past all of them the
\* last boundary is returned.
RECURSIVE WalkBuckets(_, _, _, _, _)
WalkBuckets(buckets, target, prev_bound, prev_count, i) ==
    IF i > Len(buckets) THEN buckets[Len(buckets)][1]
    ELSE IF FGe(buckets[i][2], target)
         THEN Interpolate(target, prev_bound, prev_count,
                          buckets[i][1], buckets[i][2])
         ELSE WalkBuckets(buckets, target, buckets[i][1], buckets[i][2], i + 1)

\* An estimate that lacks the check for a total count of zero.
EstimateFromNoZeroCheck(acc, p) ==
    IF acc.buckets = <<>> \/ acc.total_count = None THEN None
    ELSE WalkBuckets(SortBuckets(acc.buckets), FMul(p, acc.total_count),
                     Num(0), Num(0), 1)

\* The estimate from what the scan collected.
EstimateFrom(acc, p) ==
    IF acc.buckets = <<>> \/ acc.total_count = None
       \/ FEq(acc.total_count, Num(0))
    THEN None
    ELSE WalkBuckets(SortBuckets(acc.buckets), FMul(p, acc.total_count),
                     Num(0), Num(0), 1)

ScanStart == [buckets |-> <<>>, total_count |-> None]

\* The value returned: a float, None, or the exception raised.
get_histogram_percentile(fams, name, p) ==
    IF name \notin DOMAIN fams THEN None
    ELSE EstimateFrom(ScanSamples(ScanStart, fams[name].samples, 1), p)

-----------------------------------------------------------------------------
(* Inputs of the parser                                                    *)

\* The most lines of an explored text.
MaxLines == 2

\* Sample names: bare, one suffix, two suffixes, a suffix alone.
SampleNames ==
    {"m", "m_total", "m_bucket", "m_sum", "m_count", "m_created",
     "m_total_sum", "m_sum_total", "m_count_bucket", "m_created_count",
     "m_total_total", "_sum"}

\* Label blocks: none, well formed, empty, unterminated, no quotes.
LabelBlocks == {"", "{le=\"1\"}", "{}", "{le=\"1\"", "{le=1}"}

\* What follows the name or the label block.
ValueParts == {"", " 2", " x", " NaN", "  0.5 17"}

ParserLines ==
    {n \o " 1" : n \in SampleNames}
    \cup {"m_bucket" \o b \o v : b \in LabelBlocks, v \in ValueParts}
    \cup {"", "  ", "# HELP m some help", "# TYPE m counter",
          "# TYPE m_total counter", "# HELP m", "# note", "\tm 3 "}

\* "\n".join(ls)
RECURSIVE JoinLines(_)
JoinLines(ls) ==
    IF Len(ls) = 1 THEN ls[1]
    ELSE JoinLines(SubSeq(ls, 1, Len(ls) - 1)) \o "\n" \o ls[Len(ls)]

ParserTexts ==
    {JoinLines(ls) : ls \in UNION {[1..n -> ParserLines] : n \in 1..MaxLines}}

-----------------------------------------------------------------------------
(* parse_prometheus_text as a state machine: one step per line             *)

NoSnapshot == [k |-> "None"]

\* There is neither a store nor a mock server, and no driver runs.
PollingIdle ==
    /\ store = None
    /\ saves = 0
    /\ loaded = None
    /\ server = None
    /\ consecutive_errors = 0
    /\ driver = "none"
    /\ collected = 0

\* No call of advise or of compare was made.
EngineIdle ==
    /\ PollingIdle
    /\ suggestions = <<>>
    /\ before = <<>>
    /\ after = <<>>
    /\ report = None

Idle ==
    /\ percentile = None
    /\ result = <<>>
    /\ gpu_stats = None
    /\ snapshot = NoSnapshot
    /\ current = None
    /\ history = None
    /\ recs = <<>>
    /\ EngineIdle

ParseInit ==
    /\ pc = "parse"
    /\ text \in ParserTexts
    /\ lines = Lines(text)
    /\ lineNo = 1
    /\ families = EmptyDict
    /\ current_type = EmptyDict
    /\ current_help = EmptyDict
    /\ exc = "none"
    /\ Idle

ParseState ==
    [families |-> families, current_type |-> current_type,
     current_help |-> current_help, exc |-> exc]

\* The body of the loop on the next line; an exception leaves the function.
ParseLoop ==
    /\ pc = "parse"
    /\ lineNo <= Len(lines)
    /\ \E st \in {ParseLine(ParseState, lines[lineNo])} :
           /\ families' = st.families
           /\ current_type' = st.current_type
           /\ current_help' = st.current_help
           /\ exc' = st.exc
           /\ pc' = IF st.exc = "none" THEN "parse" ELSE "raised"
    /\ lineNo' = lineNo + 1
    /\ UNCHANGED <<text, lines, percentile, result, gpu_stats, snapshot,
                   current, history, recs>>
    /\ UNCHANGED engine
    /\ UNCHANGED polling

\* return families
ParseReturn ==
    /\ pc = "parse"
    /\ lineNo > Len(lines)
    /\ pc' = "returned"
    /\ UNCHANGED <<text, lines, lineNo, families, current_type, current_help,
                   exc, percentile, result, gpu_stats, snapshot, current,
                   history, recs>>
    /\ UNCHANGED engine
    /\ UNCHANGED polling

ParseNext == ParseLoop \/ ParseReturn

SpecParse == ParseInit /\ [][ParseNext]_vars

-----------------------------------------------------------------------------
(* get_histogram_percentile on parsed texts                                *)

\* The most sample lines of an explored histogram text.
MaxSamples == 3

\* The name of the explored histogram family.
HistName == "vllm:time_to_first_token_seconds"

\* Sample lines of the histogram: buckets at a few boundaries (one of them
\* negative, one spelled inf) with rising, equal and falling counts (one
\* fractional), the +Inf bucket, a _count sample, a bucket with an
\* unreadable le and one with none, and a sample of another family.
HistLines ==
    {HistName \o l :
        l \in {"_bucket{le=\"0.1\"} 2", "_bucket{le=\"0.1\"} 4",
               "_bucket{le=\"0.5\"} 2", "_bucket{le=\"0.5\"} 2.5",
               "_bucket{le=\"-1\"} 4", "_bucket{le=\"inf\"} 4",
               "_bucket{le=\"+Inf\"} 0", "_bucket{le=\"abc\"} 4",
               "_bucket 4", "_count 4"}}
    \cup {"vllm:num_requests_running 1"}

\* The histogram of the parser's test text: cumulative counts
\* 5, 15, 40, 70, 85, 92, 98, 100 and a total of 100.
ExampleLines ==
    <<HistName \o "_bucket{le=\"0.01\"} 5",
      HistName \o "_bucket{le=\"0.02\"} 15",
      HistName \o "_bucket{le=\"0.04\"} 40",
      HistName \o "_bucket{le=\"0.06\"} 70",
      HistName \o "_bucket{le=\"0.08\"} 85",
      HistName \o "_bucket{le=\"0.1\"} 92",
      HistName \o "_bucket{le=\"0.25\"} 98",
      HistName \o "_bucket{le=\"0.5\"} 100",
      HistName \o "_bucket{le=\"+Inf\"} 100",
      HistName \o "_count 100",
      HistName \o "_sum 4.5600">>

ExampleText == JoinLines(ExampleLines)

HistTexts ==
    {JoinLines(ls) : ls \in UNION {[1..n -> HistLines] : n \in 1..MaxSamples}}
    \cup {ExampleText}

\* The percentiles asked for, in the order of the calls: those collect asks
\* for, and the ends of the range.
Percentiles == <<Rat(1, 4), Rat(1, 2), Rat(95, 100), Rat(99, 100), Num(1)>>

HistInit ==
    /\ pc = "scrape"
    /\ text \in HistTexts
    /\ lines = Lines(text)
    /\ lineNo = 1
    /\ families = EmptyDict
    /\ current_type = EmptyDict
    /\ current_help = EmptyDict
    /\ exc = "none"
    /\ Idle

\* families = parse_prometheus_text(text), as one step.
ParseAll(next) ==
    /\ pc = "scrape"
    /\ \E st \in {parse_prometheus_text(text)} :
           /\ families' = st.families
           /\ current_type' = st.current_type
           /\ current_help' = st.current_help
           /\ exc' = st.exc
           /\ pc' = IF st.exc = "none" THEN next ELSE "raised"
    /\ lineNo' = Len(lines) + 1

HistParse ==
    /\ ParseAll("estimate")
    /\ UNCHANGED <<text, lines, percentile, result, gpu_stats, snapshot,
                   current, history, recs>>
    /\ UNCHANGED engine
    /\ UNCHANGED polling

\* The next call get_histogram_percentile(families, HistName, percentile).
Estimate ==
    /\ pc = "estimate"
    /\ Len(result) < Len(Percentiles)
    /\ percentile' = Percentiles[Len(result) + 1]
    /\ result' = Append(result,
                        get_histogram_percentile(families, HistName, percentile'))
    /\ UNCHANGED <<pc, text, lines, lineNo, families, current_type,
                   current_help, exc, gpu_stats, snapshot, current, history,
                   recs>>
    /\ UNCHANGED engine
    /\ UNCHANGED polling

HistNext == HistParse \/ Estimate

SpecHist == HistInit /\ [][HistNext]_vars

-----------------------------------------------------------------------------
(* GPUMonitor.read and VLLMCollector.collect                               *)

\* The fields of an InferenceSnapshot with their defaults (the timestamp,
\* the wall clock at construction, is left out).
InferenceSnapshotDefaults ==
    [requests_running |-> PyInt(0),
     requests_waiting |-> PyInt(0),
     requests_completed |-> PyInt(0),
     prompt_tokens_total |-> PyInt(0),
     generation_tokens_total |-> PyInt(0),
     tokens_per_second |-> Num(0),
     time_to_first_token_p50 |-> Num(0),
     time_to_first_token_p95 |-> Num(0),
     time_to_first_token_p99 |-> Num(0),
     time_per_output_token_p50 |-> Num(0),
     time_per_output_token_p95 |-> Num(0),
     time_per_output_token_p99 |-> Num(0),
     gpu_cache_usage_percent |-> Num(0),
     gpu_memory_used_gb |-> Num(0),
     gpu_memory_total_gb |-> Num(0),
     gpu_utilization_percent |-> Num(0),
     avg_batch_size |-> Num(0),
     max_batch_size |-> PyInt(0),
     estimated_cost_per_1k_tokens |-> Num(0)]

\* InferenceSnapshot(**fields)
InferenceSnapshot(fields) == fields @@ InferenceSnapshotDefaults

\* The GPUStats the monitor builds from what NVML reports: the utilization
\* rate in percent and the memory used and total (taken in whole GiB here).
GPUStats(util_gpu, mem_used, mem_total) ==
    [utilization_percent |-> FDiv(PyInt(util_gpu), Num(100)),
     memory_used_gb |-> FDiv(PyInt(mem_used), PyInt(1)),
     memory_total_gb |-> FDiv(PyInt(mem_total), PyInt(1))]

\* What GPUMonitor.read can return: None without NVML or on an NVML error,
\* else the stats of a device with 16 GiB.
GpuReadings ==
    {None} \cup {GPUStats(u, 4, 16) : u \in {0, 20, 100}}

\* collect's default cost of a GPU hour.
gpu_cost_per_hour == Num(1)

\* collect's fixed max_batch_size.
max_batch_size == 16

\* The exceptions int() raises.
IntErrors == {"ValueError", "OverflowError"}

\* The result of collect: a snapshot, or the exception that left it.
Returned(snap) == [exc |-> "none", snapshot |-> snap]

Raised(e) == [exc |-> e, snapshot |-> NoSnapshot]

\* tokens_per_hour and the cost estimate.
CostPer1k(tokens_per_second) ==
    FMul(FDiv(gpu_cost_per_hour,
              FMax(PyInt(1), FMul(tokens_per_second, PyInt(3600)))),
         PyInt(1000))

\* The snapshot construction at the end of collect; int() of the token
\* counters is evaluated there.
BuildSnapshot(fams, stats, requests_running, requests_waiting, prompt_tokens_total, generation_tokens_total, tokens_per_second) ==
    IF prompt_tokens_total.k \in IntErrors THEN Raised(prompt_tokens_total.k)
    ELSE IF generation_tokens_total.k \in IntErrors
         THEN Raised(generation_tokens_total.k)
    ELSE Returned(InferenceSnapshot(
        [requests_running |-> requests_running,
         requests_waiting |-> requests_waiting,
         requests_completed |-> PyInt(0),
         prompt_tokens_total |-> prompt_tokens_total,
         generation_tokens_total |-> generation_tokens_total,
         tokens_per_second |-> tokens_per_second,
         time_to_first_token_p50 |->
             OrZero(get_histogram_percentile(
                 fams, "vllm:time_to_first_token_seconds", Rat(50, 100))),
         time_to_first_token_p95 |->
             OrZero(get_histogram_percentile(
                 fams, "vllm:time_to_first_token_seconds", Rat(95, 100))),
         time_to_first_token_p99 |->
             OrZero(get_histogram_percentile(
                 fams, "vllm:time_to_first_token_seconds", Rat(99, 100))),
         time_per_output_token_p50 |->
             OrZero(get_histogram_percentile(
                 fams, "vllm:time_per_output_token_seconds", Rat(50, 100))),
         time_per_output_token_p95 |->
             OrZero(get_histogram_percentile(
                 fams, "vllm:time_per_output_token_seconds", Rat(95, 100))),
         time_per_output_token_p99 |->
             OrZero(get_histogram_percentile(
                 fams, "vllm:time_per_output_token_seconds", Rat(99, 100))),
         gpu_cache_usage_percent |->
             OrZero(get_gauge(fams, "vllm:gpu_cache_usage_perc")),
         gpu_memory_used_gb |->
             IF stats # None THEN stats.memory_used_gb ELSE PyInt(0),
         gpu_memory_total_gb |->
             IF stats # None THEN stats.memory_total_gb ELSE PyInt(0),
         gpu_utilization_percent |->
             IF stats # None THEN stats.utilization_percent ELSE PyInt(0),
         avg_batch_size |-> ToFloat(requests_running),
         max_batch_size |-> PyInt(max_batch_size),
         estimated_cost_per_1k_tokens |-> CostPer1k(tokens_per_second)]))

\* collect after the request counts: int() of a count that is NaN or
\* infinite has raised before anything else is read.
AssembleCounts(fams, stats, requests_running, requests_waiting) ==
    IF requests_running.k \in IntErrors THEN Raised(requests_running.k)
    ELSE IF requests_waiting.k \in IntErrors THEN Raised(requests_waiting.k)
    ELSE BuildSnapshot(
        fams, stats, requests_running, requests_waiting,
        ToInt(OrZero(get_counter(fams, "vllm:prompt_tokens"))),
        ToInt(OrZero(get_counter(fams, "vllm:generation_tokens"))),
        FAdd(OrZero(get_gauge(fams, "vllm:avg_prompt_throughput_toks_per_s")),
             OrZero(get_gauge(fams,
                              "vllm:avg_generation_throughput_toks_per_s"))))

\* The assembly of collect: from the parsed families and what the GPU
\* monitor reads to the snapshot.
Assemble(fams, stats) ==
    AssembleCounts(
        fams, stats,
        ToInt(OrZero(get_gauge(fams, "vllm:num_requests_running"))),
        ToInt(OrZero(get_gauge(fams, "vllm:num_requests_waiting"))))

\* The GPU monitor is read after the request counts, the counters, the
\* gauges and the percentiles: not when int() of a request count raised.
GpuWasRead(fams) ==
    /\ ToInt(OrZero(get_gauge(fams, "vllm:num_requests_running"))).k
           \notin IntErrors
    /\ ToInt(OrZero(get_gauge(fams, "vllm:num_requests_waiting"))).k
           \notin IntErrors

\* The lines a scraped text can carry for one metric: none, or the sample
\* line(s) with one of a few values.
MetricLines(name, values) == {""} \cup {name \o " " \o v \o "\n" : v \in values}

RunningLines == MetricLines("vllm:num_requests_running", {"3", "-3", "NaN"})

WaitingLines == MetricLines("vllm:num_requests_waiting", {"2.7", "inf"})

PromptTokensLines == MetricLines("vllm:prompt_tokens_total", {"1000"})

GenerationTokensLines == MetricLines("vllm:generation_tokens_total", {"500"})

PromptThroughputLines ==
    MetricLines("vllm:avg_prompt_throughput_toks_per_s", {"45.2"})

GenerationThroughputLines ==
    MetricLines("vllm:avg_generation_throughput_toks_per_s", {"68.7"})

CacheUsageLines == MetricLines("vllm:gpu_cache_usage_perc", {"0.62", "5"})

TtftLines ==
    {"", "vllm:time_to_first_token_seconds_bucket{le=\"0.5\"} 4\n"
         \o "vllm:time_to_first_token_seconds_bucket{le=\"+Inf\"} 4\n"}

TbtLines ==
    {"", "vllm:time_per_output_token_seconds_bucket{le=\"0.1\"} 4\n"
         \o "vllm:time_per_output_token_seconds_count 4\n"}

\* The scraped texts: every choice of lines for the metrics collect reads.
CollectTexts ==
    {r \o w \o pt \o gt \o pth \o gth \o c \o ttft \o tbt :
        r \in RunningLines, w \in WaitingLines, pt \in PromptTokensLines,
        gt \in GenerationTokensLines, pth \in PromptThroughputLines,
        gth \in GenerationThroughputLines, c \in CacheUsageLines,
        ttft \in TtftLines, tbt \in TbtLines}

CollectInit ==
    /\ pc = "scrape"
    /\ text \in CollectTexts
    /\ lines = Lines(text)
    /\ lineNo = 1
    /\ families = EmptyDict
    /\ current_type = EmptyDict
    /\ current_help = EmptyDict
    /\ exc = "none"
    /\ Idle

\* The request fails or the response is an error status: collect leaves
\* with the HTTP client's exception.
ScrapeFails ==
    /\ pc = "scrape"
    /\ pc' = "raised"
    /\ exc' = "HTTPError"
    /\ UNCHANGED <<text, lines, lineNo, families, current_type, current_help,
                   percentile, result, gpu_stats, snapshot, current, history,
                   recs>>
    /\ UNCHANGED engine
    /\ UNCHANGED polling

\* collect with a response: parse the text, read the gauges, counters and
\* percentiles, read the GPU monitor, build the snapshot.
CollectWith(st, reading) ==
    /\ families' = st.families
    /\ current_type' = st.current_type
    /\ current_help' = st.current_help
    /\ IF st.exc # "none"
       THEN /\ exc' = st.exc
            /\ pc' = "raised"
            /\ UNCHANGED <<gpu_stats, snapshot>>
       ELSE \E out \in {Assemble(st.families, reading)} :
               /\ exc' = out.exc
               /\ snapshot' = out.snapshot
               /\ pc' = IF out.exc = "none" THEN "collected" ELSE "raised"
               /\ gpu_stats' = IF GpuWasRead(st.families) THEN reading
                               ELSE gpu_stats

Collect ==
    /\ pc = "scrape"
    /\ \E st \in {parse_prometheus_text(text)} :
           \E reading \in GpuReadings : CollectWith(st, reading)
    /\ lineNo' = Len(lines) + 1
    /\ UNCHANGED <<text, lines, percentile, result, current, history, recs>>
    /\ UNCHANGED engine
    /\ UNCHANGED polling

CollectNext == ScrapeFails \/ Collect

SpecCollect == CollectInit /\ [][CollectNext]_vars

-----------------------------------------------------------------------------
(* analyze and its rules                                                   *)

\* A Recommendation (the detail text and the config hint are left out).
Recommendation(severity, category, title) ==
    [severity |-> severity, category |-> category, title |-> title]

\* The batch rule, util being avg_batch_size / max_batch_size.
BatchRule(util, snap, rs) ==
    IF FLt(util, Rat(25, 100)) /\ FEq(snap.requests_waiting, PyInt(0))
    THEN Append(rs, Recommendation("info", "batching",
                                   "Low batch utilization with empty queue"))
    ELSE IF FGt(util, Rat(9, 10)) /\ FGt(snap.requests_waiting, PyInt(0))
    THEN Append(rs, Recommendation("warning", "batching",
                                   "Batch is full with requests queued"))
    ELSE rs

\* A batch rule that asks for a low utilization or an empty queue.
_check_batch_utilization_either(snap, rs) ==
    IF FEq(snap.max_batch_size, PyInt(0)) THEN rs
    ELSE IF \/ FLt(FDiv(snap.avg_batch_size, snap.max_batch_size),
                   Rat(25, 100))
            \/ FEq(snap.requests_waiting, PyInt(0))
    THEN Append(rs, Recommendation("info", "batching",
                                   "Low batch utilization with empty queue"))
    ELSE rs

_check_batch_utilization(snap, rs) ==
    IF FEq(snap.max_batch_size, PyInt(0)) THEN rs
    ELSE BatchRule(FDiv(snap.avg_batch_size, snap.max_batch_size), snap, rs)

\* A cache rule whose thresholds are inclusive.
_check_kv_cache_pressure_inclusive(snap, rs) ==
    IF FGe(snap.gpu_cache_usage_percent, Rat(92, 100))
    THEN Append(rs, Recommendation("critical", "cache", "KV cache near full"))
    ELSE IF FGe(snap.gpu_cache_usage_percent, Rat(80, 100))
    THEN Append(rs, Recommendation("warning", "cache",
                                   "KV cache pressure building"))
    ELSE rs

_check_kv_cache_pressure(snap, rs) ==
    IF FGt(snap.gpu_cache_usage_percent, Rat(92, 100))
    THEN Append(rs, Recommendation("critical", "cache", "KV cache near full"))
    ELSE IF FGt(snap.gpu_cache_usage_percent, Rat(80, 100))
    THEN Append(rs, Recommendation("warning", "cache",
                                   "KV cache pressure building"))
    ELSE rs

_check_queue_depth(snap, rs) ==
    IF FGt(snap.requests_waiting, PyInt(10))
    THEN Append(rs, Recommendation("critical", "latency",
                                   "Request queue backup"))
    ELSE IF FGt(snap.requests_waiting, PyInt(5))
    THEN Append(rs, Recommendation("warning", "latency", "Queue building"))
    ELSE rs

\* The first-token rule on the p95 in milliseconds.
TtftRule(ttft_p95_ms, rs) ==
    IF FGt(ttft_p95_ms, PyInt(500))
    THEN Append(rs, Recommendation("critical", "latency",
                                   "High time-to-first-token"))
    ELSE IF FGt(ttft_p95_ms, PyInt(250))
    THEN Append(rs, Recommendation("warning", "latency",
                                   "Elevated time-to-first-token"))
    ELSE rs

_check_ttft_latency(snap, rs) ==
    TtftRule(FMul(snap.time_to_first_token_p95, PyInt(1000)), rs)

_check_tbt_latency(snap, rs) ==
    IF FGt(FMul(snap.time_per_output_token_p95, PyInt(1000)), PyInt(100))
    THEN Append(rs, Recommendation("warning", "latency",
                                   "Slow token generation"))
    ELSE rs

\* A GPU rule that is skipped when either telemetry field is zero.
_check_gpu_underutilization_either(snap, rs) ==
    IF \/ FEq(snap.gpu_utilization_percent, PyInt(0))
       \/ FEq(snap.gpu_memory_total_gb, PyInt(0))
    THEN rs
    ELSE IF /\ FLt(snap.gpu_utilization_percent, Rat(3, 10))
            /\ FGt(snap.requests_running, PyInt(0))
    THEN Append(rs, Recommendation("info", "utilization", "GPU underutilized"))
    ELSE rs

_check_gpu_underutilization(snap, rs) ==
    IF /\ FEq(snap.gpu_utilization_percent, PyInt(0))
       /\ FEq(snap.gpu_memory_total_gb, PyInt(0))
    THEN rs
    ELSE IF /\ FLt(snap.gpu_utilization_percent, Rat(3, 10))
            /\ FGt(snap.requests_running, PyInt(0))
    THEN Append(rs, Recommendation("info", "utilization", "GPU underutilized"))
    ELSE rs

_check_cost_efficiency(snap, rs) ==
    IF /\ FLt(snap.tokens_per_second, PyInt(20))
       /\ FGt(snap.estimated_cost_per_1k_tokens, Rat(1, 100))
    THEN Append(rs, Recommendation("info", "cost",
                                   "Low throughput driving up cost"))
    ELSE rs

\* sum(s.time_to_first_token_p95 for s in the first n of hist)
RECURSIVE SumTtft(_, _)
SumTtft(hist, n) ==
    IF n = 0 THEN PyInt(0)
    ELSE FAdd(SumTtft(hist, n - 1), hist[n].time_to_first_token_p95)

\* The average over the whole history.
OldAvgTtftWhole(hist) == FDiv(SumTtft(hist, Len(hist)), PyInt(Len(hist)))

\* The average over the oldest third of the history.
OldAvgTtft(hist) ==
    FDiv(SumTtft(hist, Len(hist) \div 3), PyInt(Len(hist) \div 3))

\* The trend rule on the old average.
TrendRule(cur, old_avg_ttft, rs) ==
    IF FEq(old_avg_ttft, PyInt(0)) THEN rs
    ELSE IF FGt(FDiv(FSub(cur.time_to_first_token_p95, old_avg_ttft),
                     old_avg_ttft),
                Rat(1, 2))
    THEN Append(rs, Recommendation("warning", "latency",
                                   "TTFT trending upward"))
    ELSE rs

_check_latency_trend(cur, hist, rs) ==
    IF Len(hist) < 5 THEN rs ELSE TrendRule(cur, OldAvgTtft(hist), rs)

\* severity_order.get(severity, 99)
severity_order(severity) ==
    CASE severity = "critical" -> 0
      [] severity = "warning" -> 1
      [] severity = "info" -> 2
      [] OTHER -> 99

\* r put into the sorted list after every entry that does not rank after it.
RECURSIVE InsertBySeverity(_, _)
InsertBySeverity(sorted, r) ==
    IF sorted = <<>> THEN <<r>>
    ELSE IF severity_order(sorted[Len(sorted)].severity)
                <= severity_order(r.severity)
    THEN Append(sorted, r)
    ELSE Append(InsertBySeverity(SubSeq(sorted, 1, Len(sorted) - 1), r),
                sorted[Len(sorted)])

\* The list left as the rules appended to it.
Unsorted(rs) == rs

\* recs.sort(key=severity_order): a stable sort.
RECURSIVE SortBySeverity(_)
SortBySeverity(rs) ==
    IF rs = <<>> THEN <<>>
    ELSE InsertBySeverity(SortBySeverity(SubSeq(rs, 1, Len(rs) - 1)),
                          rs[Len(rs)])

\* The seven rules in their order.
SevenRules(cur) ==
    _check_cost_efficiency(cur,
     _check_gpu_underutilization(cur,
      _check_tbt_latency(cur,
       _check_ttft_latency(cur,
        _check_queue_depth(cur,
         _check_kv_cache_pressure(cur,
          _check_batch_utilization(cur, <<>>)))))))

\* The Python list of the entries items.
PyList(items) == [k |-> "list", items |-> items]

\* The history is not None, not empty, and has at least 5 entries.
HasTrendWindow(hist) == hist.k # "None" /\ Len(hist.items) >= 5

analyze(cur, hist) ==
    SortBySeverity(IF HasTrendWindow(hist)
                   THEN _check_latency_trend(cur, hist.items, SevenRules(cur))
                   ELSE SevenRules(cur))

\* The longest explored history.
MaxHistory == 6

\* The healthy snapshot of the rule tests.
HealthySnapshot ==
    InferenceSnapshot(
        [requests_running |-> PyInt(8),
         requests_waiting |-> PyInt(0),
         requests_completed |-> PyInt(100),
         prompt_tokens_total |-> PyInt(5000),
         generation_tokens_total |-> PyInt(3000),
         tokens_per_second |-> Num(80),
         time_to_first_token_p50 |-> Rat(6, 100),
         time_to_first_token_p95 |-> Rat(12, 100),
         time_to_first_token_p99 |-> Rat(20, 100),
         time_per_output_token_p50 |-> Rat(15, 1000),
         time_per_output_token_p95 |-> Rat(25, 1000),
         time_per_output_token_p99 |-> Rat(35, 1000),
         gpu_cache_usage_percent |-> Rat(50, 100),
         gpu_memory_used_gb |-> Num(12),
         gpu_memory_total_gb |-> Num(24),
         gpu_utilization_percent |-> Rat(65, 100),
         avg_batch_size |-> Num(8),
         max_batch_size |-> PyInt(16),
         estimated_cost_per_1k_tokens |-> Rat(3, 1000)])

\* _make_snapshot(**overrides)
_make_snapshot(overrides) == overrides @@ HealthySnapshot

\* The GPU fields of a snapshot: no telemetry, a busy GPU, an idle one.
GpuFields ==
    {[gpu_utilization_percent |-> PyInt(0), gpu_memory_total_gb |-> PyInt(0),
      gpu_memory_used_gb |-> PyInt(0)],
     [gpu_utilization_percent |-> Rat(65, 100),
      gpu_memory_total_gb |-> Num(24), gpu_memory_used_gb |-> Num(12)],
     [gpu_utilization_percent |-> Rat(20, 100),
      gpu_memory_total_gb |-> Num(24), gpu_memory_used_gb |-> Num(12)]}

\* The throughput and cost of a snapshot: cheap, or slow and costly.
CostFields ==
    {[tokens_per_second |-> Num(80),
      estimated_cost_per_1k_tokens |-> Rat(3, 1000)],
     [tokens_per_second |-> Num(10),
      estimated_cost_per_1k_tokens |-> Rat(5, 100)]}

\* The snapshots analyze is called on: every rule with each of its outcomes.
AnalyzeSnapshots ==
    {_make_snapshot(
        [avg_batch_size |-> Num(b), requests_waiting |-> PyInt(w),
         gpu_cache_usage_percent |-> Rat(c, 100),
         time_to_first_token_p95 |-> Rat(t, 100),
         time_per_output_token_p95 |-> Rat(o, 1000)] @@ g @@ e) :
        b \in {1, 8, 15}, w \in {0, 6, 11}, c \in {50, 85, 95},
        t \in {12, 30, 60}, o \in {25, 150}, g \in GpuFields, e \in CostFields}

\* The snapshots of a history, by their TTFT p95.
HistorySnapshots ==
    {_make_snapshot([time_to_first_token_p95 |-> t]) :
        t \in {PyInt(0), Rat(1, 10)}}

\* The history argument: None, or a list of up to MaxHistory snapshots.
Histories ==
    {None} \cup {PyList(h) : h \in UNION {[1..n -> HistorySnapshots] :
                                              n \in 0..MaxHistory}}

AnalyzeInit ==
    /\ pc = "analyze"
    /\ current \in AnalyzeSnapshots
    /\ history \in Histories
    /\ recs = <<>>
    /\ text = ""
    /\ lines = <<>>
    /\ lineNo = 1
    /\ families = EmptyDict
    /\ current_type = EmptyDict
    /\ current_help = EmptyDict
    /\ exc = "none"
    /\ percentile = None
    /\ result = <<>>
    /\ gpu_stats = None
    /\ snapshot = NoSnapshot
    /\ EngineIdle

\* recs = analyze(current, history)
Analyze ==
    /\ pc = "analyze"
    /\ recs' = analyze(current, history)
    /\ pc' = "analyzed"
    /\ UNCHANGED <<text, lines, lineNo, families, current_type, current_help,
                   exc, percentile, result, gpu_stats, snapshot, current,
                   history>>
    /\ UNCHANGED engine
    /\ UNCHANGED polling

AnalyzeNext == Analyze

SpecAnalyze == AnalyzeInit /\ [][AnalyzeNext]_vars

-----------------------------------------------------------------------------
(* advise and its heuristics                                               *)

\* A ConfigSuggestion (the current_hint text, formatted from the snapshot,
\* is left out).
ConfigSuggestion(flag, suggested_action, expected_impact, confidence, priority) ==
    [flag |-> flag, suggested_action |-> suggested_action,
     expected_impact |-> expected_impact, confidence |-> confidence,
     priority |-> priority]

\* A batch heuristic that takes the queue rule's depth for a backlog.
AdviseBatchDeepQueue(util, snap, out) ==
    IF FLt(util, Rat(4, 10)) /\ FEq(snap.requests_waiting, PyInt(0))
    THEN Append(out, ConfigSuggestion("--max-num-seqs",
             "Decrease to match actual demand (saves memory for KV cache)",
             "Frees VRAM for longer sequences or larger cache", "high", 3))
    ELSE IF FGt(util, Rat(85, 100)) /\ FGt(snap.requests_waiting, PyInt(5))
    THEN Append(out, ConfigSuggestion("--max-num-seqs",
             "Increase if VRAM allows (watch gpu_cache_usage)",
             "Reduces queue wait time, improves TTFT", "medium", 1))
    ELSE out

\* The batch heuristic, util being avg_batch_size / max_batch_size.
AdviseBatch(util, snap, out) ==
    IF FLt(util, Rat(4, 10)) /\ FEq(snap.requests_waiting, PyInt(0))
    THEN Append(out, ConfigSuggestion("--max-num-seqs",
             "Decrease to match actual demand (saves memory for KV cache)",
             "Frees VRAM for longer sequences or larger cache", "high", 3))
    ELSE IF FGt(util, Rat(85, 100)) /\ FGt(snap.requests_waiting, PyInt(3))
    THEN Append(out, ConfigSuggestion("--max-num-seqs",
             "Increase if VRAM allows (watch gpu_cache_usage)",
             "Reduces queue wait time, improves TTFT", "medium", 1))
    ELSE out

_advise_batch_size(snap, out) ==
    IF FEq(snap.max_batch_size, PyInt(0)) THEN out
    ELSE AdviseBatch(FDiv(snap.avg_batch_size, snap.max_batch_size), snap, out)

\* The second suggestion of the cache heuristic: chunked prefill.
AdviseChunkedPrefill(snap, out) ==
    IF /\ FGt(snap.gpu_cache_usage_percent, Rat(70, 100))
       /\ FGt(snap.time_to_first_token_p95, Rat(15, 100))
    THEN Append(out, ConfigSuggestion("--enable-chunked-prefill",
             "Enable chunked prefill to overlap prompt processing with generation",
             "Smooths out TTFT spikes under high cache pressure", "medium", 2))
    ELSE out

\* A cache heuristic whose first threshold is inclusive.
_advise_cache_config_inclusive(snap, out) ==
    AdviseChunkedPrefill(snap,
        IF FGe(snap.gpu_cache_usage_percent, Rat(85, 100))
        THEN Append(out, ConfigSuggestion("--max-model-len",
                 "Reduce max sequence length if your workload allows shorter contexts",
                 "Lowers peak cache usage, prevents eviction stalls",
                 "medium", 1))
        ELSE out)

_advise_cache_config(snap, out) ==
    AdviseChunkedPrefill(snap,
        IF FGt(snap.gpu_cache_usage_percent, Rat(85, 100))
        THEN Append(out, ConfigSuggestion("--max-model-len",
                 "Reduce max sequence length if your workload allows shorter contexts",
                 "Lowers peak cache usage, prevents eviction stalls",
                 "medium", 1))
        ELSE out)

\* The memory heuristic, mem_usage being gpu_memory_used_gb /
\* gpu_memory_total_gb.
AdviseGpuMemory(mem_usage, snap, out) ==
    IF /\ FLt(mem_usage, Rat(6, 10))
       /\ FGt(snap.gpu_cache_usage_percent, Rat(80, 100))
    THEN Append(out, ConfigSuggestion("--gpu-memory-utilization",
             "Increase from default 0.9 to 0.95 to give more space to KV cache",
             "More cache headroom, fewer evictions", "high", 1))
    ELSE out

\* A memory heuristic whose usage threshold is inclusive.
_advise_gpu_memory_inclusive(snap, out) ==
    IF FEq(snap.gpu_memory_total_gb, PyInt(0)) THEN out
    ELSE IF /\ FLe(FDiv(snap.gpu_memory_used_gb, snap.gpu_memory_total_gb),
                   Rat(6, 10))
            /\ FGt(snap.gpu_cache_usage_percent, Rat(80, 100))
    THEN Append(out, ConfigSuggestion("--gpu-memory-utilization",
             "Increase from default 0.9 to 0.95 to give more space to KV cache",
             "More cache headroom, fewer evictions", "high", 1))
    ELSE out

_advise_gpu_memory(snap, out) ==
    IF FEq(snap.gpu_memory_total_gb, PyInt(0)) THEN out
    ELSE AdviseGpuMemory(
             FDiv(snap.gpu_memory_used_gb, snap.gpu_memory_total_gb), snap, out)

\* The quantization heuristic on mem_usage.
AdviseQuantization(mem_usage, snap, out) ==
    IF /\ FGt(mem_usage, Rat(9, 10))
       /\ FGt(snap.gpu_cache_usage_percent, Rat(85, 100))
    THEN Append(out, ConfigSuggestion(
             "--quantization awq / --quantization gptq",
             "Use a quantized model variant to free VRAM for KV cache",
             "~50% model memory reduction, minor quality tradeoff", "low", 4))
    ELSE out

_advise_quantization(snap, out) ==
    IF FEq(snap.gpu_memory_total_gb, PyInt(0)) THEN out
    ELSE AdviseQuantization(
             FDiv(snap.gpu_memory_used_gb, snap.gpu_memory_total_gb), snap, out)

\* A prefix-caching heuristic that ranks its suggestion first.
_advise_prefix_caching_urgent(snap, out) ==
    IF /\ FGt(snap.gpu_cache_usage_percent, Rat(60, 100))
       /\ FGt(snap.requests_running, PyInt(4))
    THEN Append(out, ConfigSuggestion("--enable-prefix-caching",
             "Enable automatic prefix caching for shared prompt prefixes",
             "Reduces cache duplication if requests share common system prompts",
             "medium", 1))
    ELSE out

_advise_prefix_caching(snap, out) ==
    IF /\ FGt(snap.gpu_cache_usage_percent, Rat(60, 100))
       /\ FGt(snap.requests_running, PyInt(4))
    THEN Append(out, ConfigSuggestion("--enable-prefix-caching",
             "Enable automatic prefix caching for shared prompt prefixes",
             "Reduces cache duplication if requests share common system prompts",
             "medium", 2))
    ELSE out

\* s put into the sorted list after every entry whose priority is not greater.
RECURSIVE InsertByPriority(_, _)
InsertByPriority(sorted, s) ==
    IF sorted = <<>> THEN <<s>>
    ELSE IF sorted[Len(sorted)].priority <= s.priority
    THEN Append(sorted, s)
    ELSE Append(InsertByPriority(SubSeq(sorted, 1, Len(sorted) - 1), s),
                sorted[Len(sorted)])

\* The suggestions in the order the heuristics appended them.
AsAppended(out) == out

\* suggestions.sort(key=lambda s: s.priority): a stable sort.
RECURSIVE SortByPriority(_)
SortByPriority(out) ==
    IF out = <<>> THEN <<>>
    ELSE InsertByPriority(SortByPriority(SubSeq(out, 1, Len(out) - 1)),
                          out[Len(out)])

advise(snap) ==
    SortByPriority(
        _advise_prefix_caching(snap,
         _advise_quantization(snap,
          _advise_gpu_memory(snap,
           _advise_cache_config(snap,
            _advise_batch_size(snap, <<>>))))))

\* The batch fields of a snapshot: no cap, the collector's cap of 16 below
\* and above the thresholds, a cap of 20 on the thresholds 0.4, 0.85, 0.9.
BatchFields ==
    {[avg_batch_size |-> Num(15), max_batch_size |-> PyInt(0)]}
    \cup {[avg_batch_size |-> Num(b), max_batch_size |-> PyInt(16)] :
              b \in {1, 6, 14, 15}}
    \cup {[avg_batch_size |-> Num(b), max_batch_size |-> PyInt(20)] :
              b \in {8, 17, 18}}

\* The GPU fields of a snapshot: no telemetry, a utilization without a
\* memory reading, and memory usages below, on and above 0.6 and 0.9.
MemoryFields ==
    {[gpu_utilization_percent |-> u, gpu_memory_total_gb |-> PyInt(0),
      gpu_memory_used_gb |-> PyInt(0)] :
        u \in {PyInt(0), Rat(20, 100), Rat(30, 100), Rat(65, 100)}}
    \cup {[gpu_utilization_percent |-> u, gpu_memory_total_gb |-> Num(20),
           gpu_memory_used_gb |-> Num(m)] :
        u \in {PyInt(0), Rat(20, 100), Rat(30, 100), Rat(65, 100)},
        m \in {10, 12, 18, 19}}

\* The snapshots advise and analyze are called on: every threshold of the
\* heuristics and of the cache and GPU rules below, on and above.
AdviseSnapshots ==
    {_make_snapshot(
        [requests_running |-> PyInt(r), requests_waiting |-> PyInt(w),
         gpu_cache_usage_percent |-> Rat(c, 100),
         time_to_first_token_p95 |-> Rat(t, 100)] @@ b @@ g) :
        r \in {0, 4, 8}, w \in {0, 3, 5, 11},
        c \in {50, 60, 65, 70, 75, 80, 82, 85, 90, 92, 95},
        t \in {12, 15, 30}, b \in BatchFields, g \in MemoryFields}

\* The history argument: None, or MaxHistory snapshots of a low latency.
AdviseHistories ==
    {None,
     PyList([i \in 1..MaxHistory |->
                _make_snapshot([time_to_first_token_p95 |-> Rat(1, 10)])])}

AdviseInit ==
    /\ pc = "advise"
    /\ current \in AdviseSnapshots
    /\ history \in AdviseHistories
    /\ recs = <<>>
    /\ text = ""
    /\ lines = <<>>
    /\ lineNo = 1
    /\ families = EmptyDict
    /\ current_type = EmptyDict
    /\ current_help = EmptyDict
    /\ exc = "none"
    /\ percentile = None
    /\ result = <<>>
    /\ gpu_stats = None
    /\ snapshot = NoSnapshot
    /\ EngineIdle

\* suggestions = advise(current); analyze is called on the same snapshot.
Advise ==
    /\ pc = "advise"
    /\ suggestions' = advise(current)
    /\ pc' = "analyze"
    /\ UNCHANGED <<text, lines, lineNo, families, current_type, current_help,
                   exc, percentile, result, gpu_stats, snapshot, current,
                   history, recs, before, after, report>>
    /\ UNCHANGED polling

AdviseNext == Advise \/ Analyze

SpecAdvise == AdviseInit /\ [][AdviseNext]_vars

-----------------------------------------------------------------------------
(* compare                                                                 *)

\* A MetricDelta.
MetricDelta(name, before_val, after_val, delta, delta_pct, improved) ==
    [name |-> name, before |-> before_val, after |-> after_val,
     delta |-> delta, delta_pct |-> delta_pct, improved |-> improved]

\* A ComparisonReport.
ComparisonReport(before_count, after_count, deltas, summary) ==
    [before_count |-> before_count, after_count |-> after_count,
     deltas |-> deltas, summary |-> summary]

\* The tracked metrics: attribute, display name, lower is better.
_METRICS ==
    << <<"tokens_per_second", "Tokens/sec", FALSE>>,
       <<"requests_waiting", "Queue depth", TRUE>>,
       <<"time_to_first_token_p50", "TTFT p50", TRUE>>,
       <<"time_to_first_token_p95", "TTFT p95", TRUE>>,
       <<"time_to_first_token_p99", "TTFT p99", TRUE>>,
       <<"time_per_output_token_p50", "TBT p50", TRUE>>,
       <<"time_per_output_token_p95", "TBT p95", TRUE>>,
       <<"gpu_cache_usage_percent", "KV cache usage", TRUE>>,
       <<"gpu_utilization_percent", "GPU utilization", FALSE>>,
       <<"avg_batch_size", "Avg batch size", FALSE>>,
       <<"estimated_cost_per_1k_tokens", "Cost per 1K tokens", TRUE>>,
       <<"cumulative_cost_usd", "Cumulative cost", TRUE>>,
       <<"sla_compliance_percent", "SLA compliance", FALSE>> >>

\* A Python bool.
PyBool(b) == [k |-> "bool", b |-> b]

\* abs(v)
FAbs(v) == IF FLt(v, PyInt(0)) THEN FNeg(v) ELSE v

\* sum(values) over the attribute attr of the first n snapshots.
RECURSIVE SumAttr(_, _, _)
SumAttr(snapshots, attr, n) ==
    IF n = 0 THEN PyInt(0)
    ELSE FAdd(SumAttr(snapshots, attr, n - 1), snapshots[n][attr])

\* _avg(snapshots, attr): getattr raises AttributeError on a snapshot that
\* has no field attr.
_avg(snapshots, attr) ==
    IF \E i \in 1..Len(snapshots) : attr \notin DOMAIN snapshots[i]
    THEN [k |-> "AttributeError"]
    ELSE IF snapshots = <<>> THEN PyInt(0)
    ELSE FDiv(SumAttr(snapshots, attr, Len(snapshots)), PyInt(Len(snapshots)))

\* delta_pct
DeltaPct(delta, before_val) ==
    IF ~FEq(before_val, PyInt(0))
    THEN FMul(FDiv(delta, FAbs(before_val)), PyInt(100))
    ELSE PyInt(0)

\* improved
Improved(delta, delta_pct, lower_is_better) ==
    IF FLt(FAbs(delta_pct), Num(1)) THEN None
    ELSE IF lower_is_better THEN PyBool(FLt(delta, PyInt(0)))
    ELSE PyBool(FGt(delta, PyInt(0)))

\* The MetricDelta of a metric from its difference.
DeltaFrom(metric, before_val, after_val, delta) ==
    MetricDelta(metric[2], before_val, after_val, delta,
                DeltaPct(delta, before_val),
                Improved(delta, DeltaPct(delta, before_val), metric[3]))

\* The body of the loop for one metric on the two averages: the deltas with
\* one more, or the exception of _avg.
LoopBody(st, metric, before_val, after_val) ==
    IF before_val.k = "AttributeError" \/ after_val.k = "AttributeError"
    THEN [exc |-> "AttributeError", deltas |-> st.deltas]
    ELSE [exc |-> "none",
          deltas |-> Append(st.deltas,
                            DeltaFrom(metric, before_val, after_val,
                                      FSub(after_val, before_val)))]

\* One pass of the loop, unless an earlier pass has raised.
LoopStep(st, metric, befores, afters) ==
    IF st.exc # "none" THEN st
    ELSE LoopBody(st, metric, _avg(befores, metric[1]), _avg(afters, metric[1]))

\* The loop over the first n tracked metrics.
RECURSIVE Loop(_, _, _)
Loop(befores, afters, n) ==
    IF n = 0 THEN [exc |-> "none", deltas |-> <<>>]
    ELSE LoopStep(Loop(befores, afters, n - 1), _METRICS[n], befores, afters)

\* The number of the first n deltas whose improved is the value given.
RECURSIVE CountImproved(_, _, _)
CountImproved(deltas, n, improved) ==
    IF n = 0 THEN 0
    ELSE CountImproved(deltas, n - 1, improved)
             + (IF deltas[n].improved = improved THEN 1 ELSE 0)

\* The one-line summary.
Summary(improvements, regressions) ==
    IF regressions = 0 /\ improvements > 0
    THEN ToString(improvements) \o " metrics improved, no regressions."
    ELSE IF improvements = 0 /\ regressions > 0
    THEN ToString(regressions) \o " metrics regressed, no improvements."
    ELSE IF improvements > 0 /\ regressions > 0
    THEN ToString(improvements) \o " improved, " \o ToString(regressions)
             \o " regressed -- mixed results."
    ELSE "No significant changes detected."

\* The report on the deltas of the loop, or its exception.
ReportOf(st, befores, afters) ==
    IF st.exc # "none" THEN [exc |-> st.exc, report |-> None]
    ELSE [exc |-> "none",
          report |-> ComparisonReport(Len(befores), Len(afters), st.deltas,
                         Summary(CountImproved(st.deltas, Len(st.deltas),
                                               PyBool(TRUE)),
                                 CountImproved(st.deltas, Len(st.deltas),
                                               PyBool(FALSE))))]

\* A compare that asks for both windows to be empty.
compare_both_empty(befores, afters) ==
    IF befores = <<>> /\ afters = <<>>
    THEN [exc |-> "none",
          report |-> ComparisonReport(Len(befores), Len(afters), <<>>,
                         "Need snapshots in both windows to compare.")]
    ELSE ReportOf(Loop(befores, afters, Len(_METRICS)), befores, afters)

compare(befores, afters) ==
    IF befores = <<>> \/ afters = <<>>
    THEN [exc |-> "none",
          report |-> ComparisonReport(Len(befores), Len(afters), <<>>,
                         "Need snapshots in both windows to compare.")]
    ELSE ReportOf(Loop(befores, afters, Len(_METRICS)), befores, afters)

\* The longest explored window.
MaxWindow == 2

\* _snap(**overrides) of the comparison tests.
_snap(overrides) ==
    InferenceSnapshot(
        overrides @@
        [requests_running |-> PyInt(8),
         requests_waiting |-> PyInt(2),
         tokens_per_second |-> Num(80),
         time_to_first_token_p50 |-> Rat(6, 100),
         time_to_first_token_p95 |-> Rat(12, 100),
         time_to_first_token_p99 |-> Rat(20, 100),
         time_per_output_token_p50 |-> Rat(15, 1000),
         time_per_output_token_p95 |-> Rat(25, 1000),
         gpu_cache_usage_percent |-> Rat(50, 100),
         gpu_utilization_percent |-> Rat(65, 100),
         avg_batch_size |-> Num(8),
         estimated_cost_per_1k_tokens |-> Rat(3, 1000)])

\* The snapshots of a window, by throughput and queue depth.
CompareSnapshots ==
    {_snap([tokens_per_second |-> Num(t), requests_waiting |-> PyInt(w)]) :
        t \in {60, 100}, w \in {0, 2}}

\* The windows: lists of up to MaxWindow snapshots.
Windows == UNION {[1..n -> CompareSnapshots] : n \in 0..MaxWindow}

CompareInit ==
    /\ PollingIdle
    /\ pc = "compare"
    /\ before \in Windows
    /\ after \in Windows
    /\ report = None
    /\ suggestions = <<>>
    /\ text = ""
    /\ lines = <<>>
    /\ lineNo = 1
    /\ families = EmptyDict
    /\ current_type = EmptyDict
    /\ current_help = EmptyDict
    /\ exc = "none"
    /\ percentile = None
    /\ result = <<>>
    /\ gpu_stats = None
    /\ snapshot = NoSnapshot
    /\ current = None
    /\ history = None
    /\ recs = <<>>

\* report = compare(before, after), or the exception that leaves it.
Compare ==
    /\ pc = "compare"
    /\ \E out \in {compare(before, after)} :
           /\ exc' = out.exc
           /\ report' = out.report
           /\ pc' = IF out.exc = "none" THEN "compared" ELSE "raised"
    /\ UNCHANGED <<text, lines, lineNo, families, current_type, current_help,
                   percentile, result, gpu_stats, snapshot, current, history,
                   recs, suggestions, before, after>>
    /\ UNCHANGED polling

CompareNext == Compare

SpecCompare == CompareInit /\ [][CompareNext]_vars

-----------------------------------------------------------------------------
(* Callers sharing a family map, a snapshot, a history and two windows     *)

\* The most calls of get_histogram_percentile of an explored run.
MaxCalls == 2

\* Sample lines of the shared histogram: two buckets and a _count sample.
SharedLines ==
    {HistName \o l :
        l \in {"_bucket{le=\"0.5\"} 2", "_bucket{le=\"0.1\"} 4", "_count 2"}}

SharedTexts ==
    {JoinLines(ls) : ls \in UNION {[1..n -> SharedLines] : n \in 1..MaxSamples}}

\* The percentiles the callers ask for.
SharedPercentiles == {Rat(1, 2), Rat(95, 100)}

\* The snapshot the callers share: a full cache and a slow first token.
SharedSnapshot ==
    _make_snapshot([gpu_cache_usage_percent |-> Rat(95, 100),
                    time_to_first_token_p95 |-> Rat(30, 100),
                    avg_batch_size |-> Num(1)])

\* The history the callers share: MaxHistory snapshots of a low latency.
SharedHistory ==
    PyList([i \in 1..MaxHistory |->
               _make_snapshot([time_to_first_token_p95 |-> Rat(1, 10)])])

SharedInit ==
    /\ PollingIdle
    /\ pc = "scrape"
    /\ text \in SharedTexts
    /\ lines = Lines(text)
    /\ lineNo = 1
    /\ families = EmptyDict
    /\ current_type = EmptyDict
    /\ current_help = EmptyDict
    /\ exc = "none"
    /\ percentile = None
    /\ result = <<>>
    /\ gpu_stats = None
    /\ snapshot = NoSnapshot
    /\ current = SharedSnapshot
    /\ history = SharedHistory
    /\ recs = <<>>
    /\ suggestions = <<>>
    /\ before \in {<<>>, <<SharedSnapshot>>}
    /\ after = <<SharedSnapshot>>
    /\ report = None

\* The family map the callers share is parsed once.
SharedParse ==
    /\ ParseAll("shared")
    /\ UNCHANGED <<text, lines, percentile, result, gpu_stats, snapshot,
                   current, history, recs>>
    /\ UNCHANGED engine
    /\ UNCHANGED polling

\* The samples with s put in by ascending value, behind equal values.
RECURSIVE InsertByValue(_, _)
InsertByValue(sorted, s) ==
    IF sorted = <<>> THEN <<s>>
    ELSE IF ~FGt(sorted[Len(sorted)].value, s.value) THEN Append(sorted, s)
    ELSE Append(InsertByValue(SubSeq(sorted, 1, Len(sorted) - 1), s),
                sorted[Len(sorted)])

\* samples.sort(key=lambda s: s.value)
RECURSIVE SortByValue(_)
SortByValue(samples) ==
    IF samples = <<>> THEN <<>>
    ELSE InsertByValue(SortByValue(SubSeq(samples, 1, Len(samples) - 1)),
                       samples[Len(samples)])

\* The family map with the samples of the family name sorted in place.
SortedInPlace(fams, name) ==
    IF name \notin DOMAIN fams THEN fams
    ELSE [fams EXCEPT ![name].samples = SortByValue(fams[name].samples)]

\* A call of get_histogram_percentile that sorts the family's own sample
\* list instead of a list of its own.
CallEstimateSorting ==
    /\ pc = "shared"
    /\ Len(result) < MaxCalls
    /\ \E p \in SharedPercentiles :
           /\ percentile' = p
           /\ result' = Append(result,
                  [percentile |-> p,
                   value |-> get_histogram_percentile(families, HistName, p)])
    /\ families' = SortedInPlace(families, HistName)
    /\ UNCHANGED <<pc, text, lines, lineNo, current_type, current_help, exc,
                   gpu_stats, snapshot, current, history, recs>>
    /\ UNCHANGED engine
    /\ UNCHANGED polling

\* A caller calls get_histogram_percentile(families, HistName, p): the scan
\* reads the samples and fills and sorts a list of its own.
CallEstimate ==
    /\ pc = "shared"
    /\ Len(result) < MaxCalls
    /\ \E p \in SharedPercentiles :
           /\ percentile' = p
           /\ result' = Append(result,
                  [percentile |-> p,
                   value |-> get_histogram_percentile(families, HistName, p)])
    /\ UNCHANGED <<pc, text, lines, lineNo, families, current_type,
                   current_help, exc, gpu_stats, snapshot, current, history,
                   recs>>
    /\ UNCHANGED engine
    /\ UNCHANGED polling

\* A caller calls analyze(current, history): the rules read the snapshot,
\* the trend rule slices the history, the list sorted is the new one.
CallAnalyze ==
    /\ pc = "shared"
    /\ recs' = analyze(current, history)
    /\ UNCHANGED <<pc, text, lines, lineNo, families, current_type,
                   current_help, exc, percentile, result, gpu_stats, snapshot,
                   current, history>>
    /\ UNCHANGED engine
    /\ UNCHANGED polling

\* A caller calls advise(current).
CallAdvise ==
    /\ pc = "shared"
    /\ suggestions' = advise(current)
    /\ UNCHANGED <<pc, text, lines, lineNo, families, current_type,
                   current_help, exc, percentile, result, gpu_stats, snapshot,
                   current, history, recs, before, after, report>>
    /\ UNCHANGED polling

\* A caller calls compare(before, after); an exception leaves that call
\* only.
CallCompare ==
    /\ pc = "shared"
    /\ \E out \in {compare(before, after)} :
           /\ exc' = out.exc
           /\ report' = out.report
    /\ UNCHANGED <<pc, text, lines, lineNo, families, current_type,
                   current_help, percentile, result, gpu_stats, snapshot,
                   current, history, recs, suggestions, before, after>>
    /\ UNCHANGED polling

SharedNext ==
    SharedParse \/ CallEstimate \/ CallAnalyze \/ CallAdvise \/ CallCompare

SpecShared == SharedInit /\ [][SharedNext]_vars

-----------------------------------------------------------------------------
(* The core operations on inputs that bring a denominator to zero          *)

\* Scraped texts: a first bucket of count 0 under a negative total (the
\* interpolation runs on a bucket of width 0 in count), equal counts, a
\* total of zero, and no throughput gauge or one of 0 (no token per hour).
DivideTexts ==
    {HistName \o "_bucket{le=\"0.1\"} 0\n" \o HistName \o "_count -2",
     HistName \o "_bucket{le=\"0.1\"} 2\n" \o HistName \o "_bucket{le=\"0.5\"} 2\n"
         \o HistName \o "_count 2",
     HistName \o "_bucket{le=\"0.1\"} 0\n" \o HistName \o "_count 0",
     HistName \o "_bucket{le=\"0.1\"} 0\n" \o HistName \o "_count -2\n"
         \o "vllm:avg_generation_throughput_toks_per_s 0"}

\* Snapshots with and without a batch cap and a memory total, under cache
\* pressure and with a nearly empty batch.
DivideSnapshots ==
    {_make_snapshot(
        [gpu_cache_usage_percent |-> Rat(95, 100),
         time_to_first_token_p95 |-> Rat(30, 100),
         avg_batch_size |-> Num(1), max_batch_size |-> PyInt(m),
         gpu_memory_total_gb |-> Num(t), gpu_memory_used_gb |-> Num(t \div 2)]) :
        m \in {0, 16}, t \in {0, 20}}

\* Histories: none, and MaxHistory entries whose TTFT p95 is all 0 or all
\* 0.1.
DivideHistories ==
    {None} \cup
    {PyList([i \in 1..MaxHistory |-> _make_snapshot([time_to_first_token_p95 |-> t])]) :
        t \in {PyInt(0), Rat(1, 10)}}

DivideInit ==
    /\ PollingIdle
    /\ pc = "scrape"
    /\ text \in DivideTexts
    /\ lines = Lines(text)
    /\ lineNo = 1
    /\ families = EmptyDict
    /\ current_type = EmptyDict
    /\ current_help = EmptyDict
    /\ exc = "none"
    /\ percentile = None
    /\ result = <<>>
    /\ gpu_stats = None
    /\ snapshot = NoSnapshot
    /\ current \in DivideSnapshots
    /\ history \in DivideHistories
    /\ recs = <<>>
    /\ suggestions = <<>>
    /\ before \in {<<>>, <<SharedSnapshot>>}
    /\ after \in {<<>>, <<SharedSnapshot>>}
    /\ report = None

\* A caller builds the snapshot of the families as collect does; an
\* exception leaves that call only.
CallCollect ==
    /\ pc = "shared"
    /\ snapshot = NoSnapshot
    /\ \E reading \in GpuReadings :
         \E out \in {Assemble(families, reading)} :
           /\ exc' = out.exc
           /\ snapshot' = out.snapshot
           /\ gpu_stats' = reading
    /\ UNCHANGED <<pc, text, lines, lineNo, families, current_type,
                   current_help, percentile, result, current, history, recs>>
    /\ UNCHANGED engine
    /\ UNCHANGED polling

DivideNext ==
    \/ SharedParse
    \/ CallEstimate
    \/ CallAnalyze
    \/ CallAdvise
    \/ CallCompare
    \/ CallCollect

SpecDivide == DivideInit /\ [][DivideNext]_vars

-----------------------------------------------------------------------------
(* InferenceSnapshot.__init__ and MetricsStore: save, get_recent, count    *)

\* No call of the parser, the estimator, the collector or the engine was
\* made.
NoCoreCall ==
    /\ text = ""
    /\ lines = <<>>
    /\ lineNo = 1
    /\ families = EmptyDict
    /\ current_type = EmptyDict
    /\ current_help = EmptyDict
    /\ exc = "none"
    /\ percentile = None
    /\ gpu_stats = None
    /\ snapshot = NoSnapshot
    /\ recs = <<>>
    /\ suggestions = <<>>
    /\ before = <<>>
    /\ after = <<>>
    /\ report = None

\* The keyword arguments the generated __init__ of the dataclass takes.
InitParameters == DOMAIN InferenceSnapshotDefaults \cup {"timestamp"}

\* InferenceSnapshot(**kwargs) with the arguments checked as the generated
\* __init__ checks them: [exc, value]; a keyword that names no field raises
\* TypeError.
InferenceSnapshotInit(kwargs) ==
    IF DOMAIN kwargs \subseteq InitParameters
    THEN [exc |-> "none", value |-> InferenceSnapshot(kwargs)]
    ELSE [exc |-> "TypeError", value |-> None]

\* The columns save fills, in the order of the INSERT: the column, the
\* attribute of the snapshot bound to it and the declared type.
Columns ==
    << <<"timestamp", "timestamp", "TEXT">>,
       <<"requests_running", "requests_running", "INTEGER">>,
       <<"requests_waiting", "requests_waiting", "INTEGER">>,
       <<"requests_completed", "requests_completed", "INTEGER">>,
       <<"prompt_tokens_total", "prompt_tokens_total", "INTEGER">>,
       <<"generation_tokens_total", "generation_tokens_total", "INTEGER">>,
       <<"tokens_per_second", "tokens_per_second", "REAL">>,
       <<"ttft_p50", "time_to_first_token_p50", "REAL">>,
       <<"ttft_p95", "time_to_first_token_p95", "REAL">>,
       <<"ttft_p99", "time_to_first_token_p99", "REAL">>,
       <<"tbt_p50", "time_per_output_token_p50", "REAL">>,
       <<"tbt_p95", "time_per_output_token_p95", "REAL">>,
       <<"tbt_p99", "time_per_output_token_p99", "REAL">>,
       <<"gpu_cache_usage_pct", "gpu_cache_usage_percent", "REAL">>,
       <<"gpu_memory_used_gb", "gpu_memory_used_gb", "REAL">>,
       <<"gpu_memory_total_gb", "gpu_memory_total_gb", "REAL">>,
       <<"gpu_utilization_pct", "gpu_utilization_percent", "REAL">>,
       <<"avg_batch_size", "avg_batch_size", "REAL">>,
       <<"max_batch_size", "max_batch_size", "INTEGER">>,
       <<"cost_per_1k_tokens", "estimated_cost_per_1k_tokens", "REAL">>,
       <<"gpu_cost_per_hour", "gpu_cost_per_hour", "REAL">>,
       <<"cumulative_cost_usd", "cumulative_cost_usd", "REAL">>,
       <<"sla_target_ttft_ms", "sla_target_ttft_ms", "REAL">>,
       <<"sla_compliance_pct", "sla_compliance_percent", "REAL">> >>

ColumnNames == {Columns[i][1] : i \in 1..Len(Columns)}

ColumnOf(name) == Columns[CHOOSE i \in 1..Len(Columns) : Columns[i][1] = name]

\* The columns get_recent reads with a default: row[i] or default.
ColumnDefaults ==
    [gpu_cost_per_hour |-> Num(1), cumulative_cost_usd |-> Num(0),
     sla_target_ttft_ms |-> Num(200), sla_compliance_pct |-> Num(1)]

\* The value SQLite keeps for v bound to a column of the type given: NaN
\* and None become NULL, an int in a REAL column a float, a float with an
\* integer value in an INTEGER column an int. A timestamp is the instant
\* of its ISO text; the texts of UTC instants sort as the instants do.
Stored(type, v) ==
    IF type = "TEXT" THEN v
    ELSE IF v = None \/ v.k = "nan" THEN None
    ELSE IF type = "REAL" /\ v.k = "int" THEN Num(v.n)
    ELSE IF type = "INTEGER" /\ v.k = "fin" /\ v.d = 1 THEN PyInt(v.n)
    ELSE v

\* The row the INSERT of save writes for a snapshot with all attributes.
RowOf(snap) ==
    [c \in ColumnNames |-> Stored(ColumnOf(c)[3], snap[ColumnOf(c)[2]])]

\* MetricsStore.save(snapshot) on the table rows: [exc, rows]. The values
\* are read off the snapshot before the INSERT runs: an attribute the
\* instance does not have raises AttributeError and no row is written.
save(rows, snap) ==
    IF \E i \in 1..Len(Columns) : Columns[i][2] \notin DOMAIN snap
    THEN [exc |-> "AttributeError", rows |-> rows]
    ELSE [exc |-> "none", rows |-> Append(rows, RowOf(snap))]

\* row[i] or default
OrDefault(v, default) == IF Truthy(v) THEN v ELSE default

\* The keyword arguments get_recent builds from a row.
KwargsOf(row) ==
    [a \in {Columns[i][2] : i \in 1..Len(Columns)} |->
        LET c == Columns[CHOOSE i \in 1..Len(Columns) : Columns[i][2] = a][1]
        IN  IF c \in DOMAIN ColumnDefaults
            THEN OrDefault(row[c], ColumnDefaults[c])
            ELSE row[c]]

\* row goes into the rows sorted by timestamp, after those of its timestamp.
RECURSIVE InsertByTimestamp(_, _)
InsertByTimestamp(sorted, row) ==
    IF sorted = <<>> THEN <<row>>
    ELSE IF row.timestamp < Head(sorted).timestamp THEN <<row>> \o sorted
    ELSE <<Head(sorted)>> \o InsertByTimestamp(Tail(sorted), row)

\* ORDER BY timestamp ASC
RECURSIVE OrderByTimestamp(_)
OrderByTimestamp(rows) ==
    IF rows = <<>> THEN <<>>
    ELSE InsertByTimestamp(OrderByTimestamp(SubSeq(rows, 1, Len(rows) - 1)),
                           rows[Len(rows)])

\* The snapshots built from the rows selected: [exc, value].
SnapshotsOf(made) ==
    IF \E i \in 1..Len(made) : made[i].exc # "none"
    THEN [exc |-> "TypeError", value |-> None]
    ELSE [exc |-> "none",
          value |-> PyList([i \in 1..Len(made) |-> made[i].value])]

Selected(rows, cutoff) ==
    OrderByTimestamp(SelectSeq(rows, LAMBDA r : r.timestamp >= cutoff))

MadeFrom(sel) == [i \in 1..Len(sel) |-> InferenceSnapshotInit(KwargsOf(sel[i]))]

\* MetricsStore.get_recent on the table rows, cutoff being now less the
\* minutes asked for: [exc, value].
get_recent(rows, cutoff) == SnapshotsOf(MadeFrom(Selected(rows, cutoff)))

\* MetricsStore.count()
count(rows) == Len(rows)

\* MetricsStore(db_path): the store, with the rows of its table snapshots.
MetricsStore(rows) == [k |-> "MetricsStore", rows |-> rows]

\* The most calls of save of an explored run.
MaxSaves == 4

\* _make_snapshot(**overrides) of the store tests, at the instant given.
StoreSnapshot(t, overrides) ==
    InferenceSnapshot(
        overrides @@
        [timestamp |-> t,
         requests_running |-> PyInt(5),
         requests_waiting |-> PyInt(2),
         tokens_per_second |-> Num(100),
         gpu_cache_usage_percent |-> Rat(65, 100),
         estimated_cost_per_1k_tokens |-> Rat(3, 1000)])

\* The snapshots saved: those of the tests at two instants.
StoreSnapshots ==
    {StoreSnapshot(t, o) :
        t \in {1, 2},
        o \in {<<>>,
               [requests_running |-> PyInt(1)],
               [requests_running |-> PyInt(8), requests_waiting |-> PyInt(3),
                tokens_per_second |-> Rat(285, 2),
                time_to_first_token_p50 |-> Rat(45, 1000),
                time_to_first_token_p95 |-> Rat(12, 100),
                gpu_cache_usage_percent |-> Rat(78, 100),
                estimated_cost_per_1k_tokens |-> Rat(25, 10000)]}}

\* The table of a database file written before this run, by a version
\* whose schema had no cost and no SLA columns: the migration gave its
\* row the defaults of the columns it added.
EarlierRows ==
    << [c \in ColumnNames |->
          IF c = "timestamp" THEN 0
          ELSE IF c \in DOMAIN ColumnDefaults THEN ColumnDefaults[c]
          ELSE Stored(ColumnOf(c)[3], InferenceSnapshotDefaults[ColumnOf(c)[2]])] >>

\* The cutoffs of get_recent: before every row, after the earlier run.
Cutoffs == {0, 1}

\* store = MetricsStore(db_path) on a new file or on that of an earlier run.
StoreInit ==
    /\ pc = "store"
    /\ store \in {MetricsStore(<<>>), MetricsStore(EarlierRows)}
    /\ saves = 0
    /\ loaded = None
    /\ server = None
    /\ consecutive_errors = 0
    /\ driver = "none"
    /\ collected = 0
    /\ current = None
    /\ history = None
    /\ result = <<>>
    /\ NoCoreCall

\* store.save(current); an exception leaves that call only. What an
\* earlier get_recent returned is dropped.
Save ==
    /\ pc = "store"
    /\ saves < MaxSaves
    /\ \E snap \in StoreSnapshots :
         \E out \in {save(store.rows, snap)} :
           /\ current' = snap
           /\ store' = MetricsStore(out.rows)
           /\ exc' = out.exc
    /\ saves' = saves + 1
    /\ loaded' = None
    /\ UNCHANGED <<pc, text, lines, lineNo, families, current_type,
                   current_help, percentile, result, gpu_stats, snapshot,
                   history, recs, server, consecutive_errors, driver,
                   collected>>
    /\ UNCHANGED engine

\* loaded = store.get_recent(minutes); an exception leaves that call only.
GetRecent ==
    /\ pc = "store"
    /\ \E cutoff \in Cutoffs :
         \E out \in {get_recent(store.rows, cutoff)} :
           /\ loaded' = out.value
           /\ exc' = out.exc
    /\ UNCHANGED <<pc, text, lines, lineNo, families, current_type,
                   current_help, percentile, result, gpu_stats, snapshot,
                   current, history, recs, store, saves, server,
                   consecutive_errors, driver, collected>>
    /\ UNCHANGED engine

StoreNext == Save \/ GetRecent

SpecStore == StoreInit /\ [][StoreNext]_vars

-----------------------------------------------------------------------------
(* MockVLLMServer.snapshot                                                 *)

\* min(a, b): the first argument unless the second is smaller.
FMin(a, b) == IF FLt(b, a) THEN b ELSE a

\* MockVLLMServer(): the fields __init__ sets.
MockVLLMServer ==
    [_tick |-> 0, _total_prompt_tokens |-> 0, _total_gen_tokens |-> 0,
     _total_completed |-> 0, _cumulative_cost |-> Num(0),
     gpu_cost_per_hour |-> Num(1), gpu_memory_total_gb |-> Num(24),
     model_memory_gb |-> Rat(85, 10), sla_target_ttft_ms |-> Num(200)]

\* The draws of one tick: active_requests is max(1, int(base_load + spike))
\* with base_load in 2..14 and spike below 8; tokens_per_second is
\* max(10, base_tps + noise) with unbounded noise. The other noise terms
\* are taken at their means.
ActiveRequests == {1, 8, 21}

TokensPerSecond == {Num(10), Num(108)}

\* The fields after the updates of one tick.
Ticked(self, active_requests, tokens_per_second, gen_this_tick) ==
    [self EXCEPT
        !._tick = @ + 1,
        !._total_gen_tokens = @ + gen_this_tick,
        !._total_prompt_tokens =
            @ + ToInt(FMul(PyInt(gen_this_tick), Rat(6, 10))).n,
        !._total_completed = @ + Max2(1, active_requests \div 3),
        !._cumulative_cost = FAdd(@, FDiv(self.gpu_cost_per_hour, PyInt(1800)))]

\* The latency and cache arguments of the snapshot of one tick.
Readings(self, active_requests, waiting, cache_usage, ttft_p50, tbt_p50) ==
    [requests_running |-> PyInt(active_requests),
     requests_waiting |-> PyInt(waiting),
     time_to_first_token_p50 |-> ttft_p50,
     time_to_first_token_p95 |-> FMul(ttft_p50, Rat(215, 100)),
     time_to_first_token_p99 |->
         FMul(FMul(ttft_p50, Rat(215, 100)), Rat(155, 100)),
     time_per_output_token_p50 |-> tbt_p50,
     time_per_output_token_p95 |-> FMul(tbt_p50, Rat(175, 100)),
     time_per_output_token_p99 |->
         FMul(FMul(tbt_p50, Rat(175, 100)), Rat(135, 100)),
     gpu_cache_usage_percent |-> cache_usage,
     gpu_memory_used_gb |->
         FAdd(self.model_memory_gb,
              FMul(FSub(self.gpu_memory_total_gb, self.model_memory_gb),
                   cache_usage)),
     sla_compliance_percent |->
         FMax(Num(0),
              FMin(Num(1),
                   FSub(Num(1),
                        FMul(FDiv(FMul(ttft_p50, Rat(215, 100)),
                                  FDiv(self.sla_target_ttft_ms, Num(1000))),
                             Rat(3, 10)))))]

ReadingsAt(self, active_requests, waiting, cache_usage) ==
    Readings(self, active_requests, waiting, cache_usage,
             FMax(Rat(2, 100),
                  FAdd(FAdd(Rat(8, 100), FMul(PyInt(waiting), Rat(2, 100))),
                       FMul(cache_usage, Rat(5, 100)))),
             FMax(Rat(5, 1000),
                  FAdd(Rat(12, 1000),
                       FMul(FDiv(PyInt(active_requests), PyInt(50)),
                            Rat(5, 1000)))))

\* The keyword arguments snapshot passes to InferenceSnapshot.
SnapshotKwargs(self, active_requests, tokens_per_second) ==
    ReadingsAt(self, active_requests, Max2(0, active_requests - 12),
               FMax(Rat(1, 10),
                    FMin(Rat(98, 100),
                         FAdd(Rat(3, 10),
                              FMul(FDiv(PyInt(active_requests), PyInt(20)),
                                   Rat(5, 10))))))
    @@ [timestamp |-> self._tick,
        requests_completed |-> PyInt(self._total_completed),
        prompt_tokens_total |-> PyInt(self._total_prompt_tokens),
        generation_tokens_total |-> PyInt(self._total_gen_tokens),
        tokens_per_second |-> tokens_per_second,
        gpu_memory_total_gb |-> self.gpu_memory_total_gb,
        gpu_utilization_percent |->
            FMin(Rat(99, 100),
                 FAdd(Rat(3, 10), FDiv(tokens_per_second, PyInt(200)))),
        avg_batch_size |-> Num(Min2(active_requests, 16)),
        max_batch_size |-> PyInt(16),
        gpu_cost_per_hour |-> self.gpu_cost_per_hour,
        estimated_cost_per_1k_tokens |->
            FMul(FDiv(self.gpu_cost_per_hour,
                      FMax(PyInt(1), FMul(tokens_per_second, PyInt(3600)))),
                 PyInt(1000)),
        cumulative_cost_usd |-> self._cumulative_cost,
        sla_target_ttft_ms |-> self.sla_target_ttft_ms]

\* self.snapshot() with the draws given: [self, exc, value]. The totals
\* are updated before the snapshot is built.
snapshot_of(self, active_requests, tokens_per_second) ==
    LET ticked == Ticked(self, active_requests, tokens_per_second,
                         ToInt(FMul(tokens_per_second, PyInt(2))).n)
        made == InferenceSnapshotInit(
                    SnapshotKwargs(ticked, active_requests, tokens_per_second))
    IN  [self |-> ticked, exc |-> made.exc, value |-> made.value]

\* The most calls of snapshot of an explored run.
MaxTicks == 4

\* server = MockVLLMServer()
ServerInit ==
    /\ pc = "server"
    /\ server = MockVLLMServer
    /\ store = None
    /\ saves = 0
    /\ loaded = None
    /\ consecutive_errors = 0
    /\ driver = "none"
    /\ collected = 0
    /\ current = None
    /\ history = None
    /\ result = <<>>
    /\ NoCoreCall

\* server.snapshot(); the snapshot returned is kept in result, an exception
\* leaves that call only.
Snapshot ==
    /\ pc = "server"
    /\ server._tick < MaxTicks
    /\ \E a \in ActiveRequests, tps \in TokensPerSecond :
         \E out \in {snapshot_of(server, a, tps)} :
           /\ server' = out.self
           /\ exc' = out.exc
           /\ result' = IF out.exc = "none" THEN Append(result, out.value)
                        ELSE result
    /\ UNCHANGED <<pc, text, lines, lineNo, families, current_type,
                   current_help, percentile, gpu_stats, snapshot, current,
                   history, recs, store, saves, loaded, consecutive_errors,
                   driver, collected>>
    /\ UNCHANGED engine

ServerNext == Snapshot

SpecServer == ServerInit /\ [][ServerNext]_vars

-----------------------------------------------------------------------------
(* run_dashboard and run_jsonl                                             *)

HISTORY_SIZE == 30

\* The most calls of collect that return in an explored run.
MaxCollects == 32

\* deque(maxlen=maxlen).append(x): once full, the oldest entry is dropped.
DequeAppend(items, x, maxlen) ==
    IF Len(items) < maxlen THEN Append(items, x)
    ELSE Append(Tail(items), x)

\* What the n-th call of collector.collect() that returns gives back: an
\* InferenceSnapshot, taken at instant n.
Collected(n) == InferenceSnapshot([timestamp |-> n])

\* run_dashboard(collector, refresh_interval, store) and
\* run_jsonl(collector, refresh_interval, store) at the head of their loop:
\* store is a MetricsStore (on a new file or on that of an earlier run) or
\* None; run_dashboard alone keeps a history.
DriverInit ==
    /\ pc = "poll"
    /\ driver \in {"run_dashboard", "run_jsonl"}
    /\ store \in {None, MetricsStore(<<>>), MetricsStore(EarlierRows)}
    /\ history = IF driver = "run_dashboard" THEN PyList(<<>>) ELSE None
    /\ consecutive_errors = 0
    /\ collected = 0
    /\ saves = 0
    /\ loaded = None
    /\ server = None
    /\ current = None
    /\ result = <<>>
    /\ NoCoreCall

\* One turn of the loop in which collector.collect() raises an Exception:
\* the fifth in a row breaks out of the loop.
CollectFails ==
    /\ pc = "poll"
    /\ consecutive_errors' = consecutive_errors + 1
    /\ pc' = IF consecutive_errors + 1 >= 5 THEN "stopped" ELSE "poll"
    /\ UNCHANGED <<text, lines, lineNo, families, current_type, current_help,
                   exc, percentile, result, gpu_stats, snapshot, current,
                   history, recs, store, saves, loaded, server, driver,
                   collected>>
    /\ UNCHANGED engine

\* One turn of the loop in which collector.collect() returns: the counter
\* is reset, run_dashboard appends to its history, and a store that was
\* given saves the snapshot. Neither try block of the driver catches what
\* store.save raises, so its exception leaves the driver.
CollectReturns ==
    /\ pc = "poll"
    /\ collected < MaxCollects
    /\ \E snap \in {Collected(collected + 1)} :
         /\ snapshot' = snap
         /\ history' = IF driver = "run_dashboard"
                       THEN PyList(DequeAppend(history.items, snap, HISTORY_SIZE))
                       ELSE history
         /\ IF store = None
            THEN /\ pc' = "poll"
                 /\ UNCHANGED <<store, saves, exc>>
            ELSE \E out \in {save(store.rows, snap)} :
                   /\ store' = MetricsStore(out.rows)
                   /\ saves' = saves + 1
                   /\ exc' = out.exc
                   /\ pc' = IF out.exc = "none" THEN "poll" ELSE "raised"
    /\ consecutive_errors' = 0
    /\ collected' = collected + 1
    /\ UNCHANGED <<text, lines, lineNo, families, current_type, current_help,
                   percentile, result, gpu_stats, current, recs, loaded,
                   server, driver>>
    /\ UNCHANGED engine

\* KeyboardInterrupt while the driver sleeps between two turns: the outer
\* try block catches it and the driver returns.
Interrupt ==
    /\ pc = "poll"
    /\ pc' = "interrupted"
    /\ UNCHANGED <<text, lines, lineNo, families, current_type, current_help,
                   exc, percentile, result, gpu_stats, snapshot, current,
                   history, recs>>
    /\ UNCHANGED engine
    /\ UNCHANGED polling

DriverNext == CollectFails \/ CollectReturns \/ Interrupt

SpecDriver == DriverInit /\ [][DriverNext]_vars

-----------------------------------------------------------------------------
(* Properties of the parser                                                *)

\* C1: parse_prometheus_text never raises, whatever the text: a line that
\* cannot be parsed (a label block that is malformed, unterminated or
\* followed by no value token included) is skipped, and a family map is
\* returned.
C1_ParseNeverRaises == exc = "none" /\ pc # "raised"

\* The suffixes in the documented priority order.
C2_Priority == <<"_total", "_bucket", "_sum", "_count", "_created">>

\* The positions in C2_Priority of the suffixes name ends with.
C2_Matching(name) ==
    {i \in 1..Len(C2_Priority) : EndsWith(name, C2_Priority[i])}

\* base is name without the first suffix of the priority list name ends
\* with, that one only, and name itself when it ends with none.
C2_StrippedOnce(base, name) ==
    IF C2_Matching(name) = {} THEN base = name
    ELSE \E i \in C2_Matching(name) :
            /\ \A j \in C2_Matching(name) : i <= j
            /\ base \o C2_Priority[i] = name

\* C2: every sample is filed under its name with exactly one suffix removed,
\* the first of _total, _bucket, _sum, _count, _created the name ends with,
\* and under its unchanged name when it ends with none.
C2_SuffixStrippedOnce ==
    \A base \in DOMAIN families :
        /\ families[base].name = base
        /\ \A i \in 1..Len(families[base].samples) :
              C2_StrippedOnce(base, families[base].samples[i].name)

\* A sample whose name carries two suffixes is filed under the name that
\* keeps the inner one.
C2_Witness ==
    /\ pc = "returned"
    /\ "m_total" \in DOMAIN families
    /\ \E i \in 1..Len(families["m_total"].samples) :
          families["m_total"].samples[i].name = "m_total_sum"

-----------------------------------------------------------------------------
(* Properties of get_histogram_percentile                                  *)

\* The samples of the histogram family, in arrival order.
HistSamples ==
    IF HistName \in DOMAIN families THEN families[HistName].samples ELSE <<>>

\* Sample i is a bucket with a boundary: a _bucket sample whose le label is
\* there, is not "+Inf" and reads as a number.
IsBoundary(i) ==
    /\ EndsWith(HistSamples[i].name, "_bucket")
    /\ "le" \in DOMAIN HistSamples[i].labels
    /\ HistSamples[i].labels["le"] # "+Inf"
    /\ ParseFloat(HistSamples[i].labels["le"]).k # "ValueError"

Boundaries == {i \in 1..Len(HistSamples) : IsBoundary(i)}

BoundOf(i) == ParseFloat(HistSamples[i].labels["le"])

CountOf(i) == HistSamples[i].value

\* Sample i sets the total count: the +Inf bucket or a _count sample.
IsTotal(i) ==
    \/ /\ EndsWith(HistSamples[i].name, "_bucket")
       /\ "le" \in DOMAIN HistSamples[i].labels
       /\ HistSamples[i].labels["le"] = "+Inf"
    \/ EndsWith(HistSamples[i].name, "_count")

Totals == {i \in 1..Len(HistSamples) : IsTotal(i)}

\* The resolved total count: that of the last sample setting it.
TotalCount == CountOf(CHOOSE i \in Totals : \A j \in Totals : j <= i)

\* Bucket a comes before bucket b in ascending boundary order (arrival order
\* among equal boundaries).
Before(a, b) ==
    FLt(BoundOf(a), BoundOf(b)) \/ (BoundOf(a) = BoundOf(b) /\ a < b)

\* The estimator has nothing to estimate from.
NothingToEstimate ==
    \/ HistName \notin DOMAIN families
    \/ Boundaries = {}
    \/ Totals = {}
    \/ FEq(TotalCount, Num(0))

CountsNonDecreasing ==
    \A a, b \in Boundaries : Before(a, b) => FLe(CountOf(a), CountOf(b))

\* The estimates made so far are non-decreasing in p (the percentiles are
\* asked for in ascending order).
EstimatesNonDecreasing ==
    \A r1, r2 \in 1..Len(result) :
        (r1 < r2 /\ result[r1] # None /\ result[r2] # None)
            => FLe(result[r1], result[r2])

\* C4 as stated: for a histogram whose bucket counts are non-decreasing in
\* boundary order, the estimate is non-decreasing in p.
C4_MonotoneInP == EstimatesNonDecreasing \/ ~CountsNonDecreasing

\* C4, amended: for a histogram whose bucket boundaries are all >= 0, whose
\* bucket counts are non-decreasing in boundary order and whose total count
\* is positive, the estimate is non-decreasing in p.
C4_MonotoneInPNonNegative ==
    \/ EstimatesNonDecreasing
    \/ ~CountsNonDecreasing
    \/ \E i \in Boundaries : ~FGe(BoundOf(i), Num(0))
    \/ Totals # {} /\ ~FGt(TotalCount, Num(0))

\* Two buckets with different boundaries >= 0 and rising counts, estimated
\* at every percentile, with estimates that differ.
C4_Witness ==
    /\ Len(result) = Len(Percentiles)
    /\ CountsNonDecreasing
    /\ \A i \in Boundaries : FGe(BoundOf(i), Num(0))
    /\ \E a, b \in Boundaries : FLt(BoundOf(a), BoundOf(b))
    /\ result[1] # None
    /\ FLt(result[1], result[Len(result)])

\* x lies between a and b, the ends included.
Between(x, a, b) ==
    (FLe(a, x) /\ FLe(x, b)) \/ (FLe(b, x) /\ FLe(x, a))

\* The buckets whose cumulative count reaches the target.
Reaching(target) == {i \in Boundaries : FGe(CountOf(i), target)}

\* The boundary of the bucket before bucket i in boundary order, 0 for the
\* first one.
PrevBoundOf(i) ==
    IF \E j \in Boundaries : Before(j, i)
    THEN BoundOf(CHOOSE j \in Boundaries :
                    /\ Before(j, i)
                    /\ \A k \in Boundaries :
                          Before(k, i) => (k = j \/ Before(k, j)))
    ELSE Num(0)

\* est is the estimate the documented rule gives for target: within the
\* first bucket reaching the target, or the largest boundary when none does.
EstimateWithin(est, target) ==
    IF Reaching(target) = {}
    THEN \E i \in Boundaries :
            /\ est = BoundOf(i)
            /\ \A j \in Boundaries : FLe(BoundOf(j), est)
    ELSE \E i \in Reaching(target) :
            /\ \A j \in Reaching(target) : j = i \/ Before(i, j)
            /\ Between(est, PrevBoundOf(i), BoundOf(i))

-----------------------------------------------------------------------------
(* Properties of VLLMCollector.collect                                     *)

\* C6: building the snapshot from a parsed family map always succeeds:
\* whenever the text was scraped and parsed, whatever numeric values its
\* samples carry and with or without a GPU reading, collect returns a
\* snapshot and raises nothing.
C6_AssemblyAlwaysSucceeds ==
    pc = "raised" => exc \in {"HTTPError", "IndexError"}

\* No sample of the metric was parsed.
Absent(name) == name \notin DOMAIN families

\* The first sample value of a gauge, 0 when the gauge is absent.
GaugeOrZero(name) ==
    IF Absent(name) THEN PyInt(0) ELSE families[name].samples[1].value

\* C7: every field of a returned snapshot is 0 when its own metric is
\* absent, whatever the other metrics are: the running and waiting counts,
\* the prompt and generation token totals, the cache usage and the six
\* latency percentiles; tokens_per_second is the sum of the two throughput
\* gauges, each 0 when absent; the GPU utilization and the GPU memory used
\* and total are 0 without a GPU reading; avg_batch_size equals the running
\* count.
C7_FieldsFromOwnMetrics ==
    pc = "collected" =>
        /\ Absent("vllm:num_requests_running")
               => IsZero(snapshot.requests_running)
        /\ Absent("vllm:num_requests_waiting")
               => IsZero(snapshot.requests_waiting)
        /\ Absent("vllm:prompt_tokens")
               => IsZero(snapshot.prompt_tokens_total)
        /\ Absent("vllm:generation_tokens")
               => IsZero(snapshot.generation_tokens_total)
        /\ Absent("vllm:gpu_cache_usage_perc")
               => IsZero(snapshot.gpu_cache_usage_percent)
        /\ Absent("vllm:time_to_first_token_seconds")
               => /\ IsZero(snapshot.time_to_first_token_p50)
                  /\ IsZero(snapshot.time_to_first_token_p95)
                  /\ IsZero(snapshot.time_to_first_token_p99)
        /\ Absent("vllm:time_per_output_token_seconds")
               => /\ IsZero(snapshot.time_per_output_token_p50)
                  /\ IsZero(snapshot.time_per_output_token_p95)
                  /\ IsZero(snapshot.time_per_output_token_p99)
        /\ FEq(snapshot.tokens_per_second,
               FAdd(GaugeOrZero("vllm:avg_prompt_throughput_toks_per_s"),
                    GaugeOrZero("vllm:avg_generation_throughput_toks_per_s")))
        /\ gpu_stats = None
               => /\ IsZero(snapshot.gpu_utilization_percent)
                  /\ IsZero(snapshot.gpu_memory_used_gb)
                  /\ IsZero(snapshot.gpu_memory_total_gb)
        /\ FEq(snapshot.avg_batch_size, snapshot.requests_running)

\* A snapshot returned without a GPU reading from a text that has a waiting
\* gauge, a prompt throughput gauge and a token-latency histogram, but no
\* running gauge, no generation throughput gauge and no first-token
\* histogram.
C7_Witness ==
    /\ pc = "collected"
    /\ gpu_stats = None
    /\ Absent("vllm:num_requests_running")
    /\ ~Absent("vllm:num_requests_waiting")
    /\ snapshot.requests_waiting = PyInt(2)
    /\ ~Absent("vllm:avg_prompt_throughput_toks_per_s")
    /\ Absent("vllm:avg_generation_throughput_toks_per_s")
    /\ snapshot.tokens_per_second = Rat(452, 10)
    /\ Absent("vllm:time_to_first_token_seconds")
    /\ ~Absent("vllm:time_per_output_token_seconds")
    /\ FGt(snapshot.time_per_output_token_p50, Num(0))

\* v lies in [0, 1].
IsFraction(v) == FLe(PyInt(0), v) /\ FLe(v, PyInt(1))

\* v is an integer >= 0.
IsCount(v) == IsInt(v) /\ v.n >= 0

\* C8: every snapshot collect returns satisfies the invariants of the data
\* model, whatever values the parsed metrics carry: the cache usage and the
\* GPU utilization lie in [0, 1], and the running, waiting and completed
\* request counts are integers >= 0.
C8_SnapshotInvariants ==
    pc = "collected" =>
        /\ IsFraction(snapshot.gpu_cache_usage_percent)
        /\ IsFraction(snapshot.gpu_utilization_percent)
        /\ IsCount(snapshot.requests_running)
        /\ IsCount(snapshot.requests_waiting)
        /\ IsCount(snapshot.requests_completed)

-----------------------------------------------------------------------------
(* Properties of analyze                                                   *)

\* critical 0, warning 1, info 2.
SeverityRank(r) ==
    IF r.severity = "critical" THEN 0
    ELSE IF r.severity = "warning" THEN 1
    ELSE 2

\* The position, in the order of evaluation, of the rule that emits r:
\* batch, cache, queue, TTFT, TBT, GPU, cost, trend.
RulePosition(r) ==
    IF r.category = "batching" THEN 1
    ELSE IF r.category = "cache" THEN 2
    ELSE IF r.title \in {"Request queue backup", "Queue building"} THEN 3
    ELSE IF r.title \in {"High time-to-first-token",
                         "Elevated time-to-first-token"} THEN 4
    ELSE IF r.title = "Slow token generation" THEN 5
    ELSE IF r.category = "utilization" THEN 6
    ELSE IF r.category = "cost" THEN 7
    ELSE 8

\* C9: the list analyze returns is ordered by (severity rank, rule
\* position): every critical recommendation comes before every warning and
\* every warning before every info, and two recommendations of the same
\* severity come in the rule order batch, cache, queue, TTFT, TBT, GPU,
\* cost, trend.
C9_OrderedBySeverityThenRule ==
    \A i, j \in 1..Len(recs) :
        i < j =>
            \/ SeverityRank(recs[i]) < SeverityRank(recs[j])
            \/ /\ SeverityRank(recs[i]) = SeverityRank(recs[j])
               /\ RulePosition(recs[i]) < RulePosition(recs[j])

\* A returned list with all three severities, in which an info
\* recommendation of the first rule follows warnings of later rules and the
\* trend warning follows the other warnings.
C9_Witness ==
    /\ pc = "analyzed"
    /\ Len(recs) >= 6
    /\ recs[1].severity = "critical"
    /\ \E i, j \in 1..Len(recs) :
          /\ i < j
          /\ recs[i].title = "Slow token generation"
          /\ recs[j].title = "TTFT trending upward"
    /\ \E i, j \in 1..Len(recs) :
          /\ i < j
          /\ recs[i].severity = "warning"
          /\ recs[j].category = "batching"
          /\ recs[j].severity = "info"

\* The snapshot satisfies none of the seven rule conditions.
NoRuleCondition(snap) ==
    /\ \/ FEq(snap.max_batch_size, PyInt(0))
       \/ /\ ~(/\ FLt(FDiv(snap.avg_batch_size, snap.max_batch_size),
                      Rat(25, 100))
               /\ FEq(snap.requests_waiting, PyInt(0)))
          /\ ~(/\ FGt(FDiv(snap.avg_batch_size, snap.max_batch_size),
                      Rat(90, 100))
               /\ FGt(snap.requests_waiting, PyInt(0)))
    /\ ~FGt(snap.gpu_cache_usage_percent, Rat(80, 100))
    /\ ~FGt(snap.requests_waiting, PyInt(5))
    /\ ~FGt(FMul(snap.time_to_first_token_p95, PyInt(1000)), PyInt(250))
    /\ ~FGt(FMul(snap.time_per_output_token_p95, PyInt(1000)), PyInt(100))
    /\ ~(/\ \/ ~FEq(snap.gpu_utilization_percent, PyInt(0))
            \/ ~FEq(snap.gpu_memory_total_gb, PyInt(0))
         /\ FLt(snap.gpu_utilization_percent, Rat(30, 100))
         /\ FGt(snap.requests_running, PyInt(0)))
    /\ ~(/\ FLt(snap.tokens_per_second, PyInt(20))
         /\ FGt(snap.estimated_cost_per_1k_tokens, Rat(1, 100)))

\* C10 as stated: analyze on a snapshot that satisfies none of the seven
\* rule conditions returns an empty list, for any history including none.
C10_NoConditionNoRecommendation ==
    (pc = "analyzed" /\ NoRuleCondition(current)) => recs = <<>>

\* The history has at least 5 entries and the TTFT p95 of the snapshot is
\* more than 50% above the nonzero average TTFT p95 of its oldest third.
TrendCondition(snap, hist) ==
    /\ hist.k # "None"
    /\ Len(hist.items) >= 5
    /\ ~FEq(OldAvgTtft(hist.items), PyInt(0))
    /\ FGt(FSub(snap.time_to_first_token_p95, OldAvgTtft(hist.items)),
           FMul(Rat(1, 2), OldAvgTtft(hist.items)))

\* C10, amended: analyze on a snapshot that satisfies none of the seven
\* rule conditions returns an empty list when the history is none, has
\* fewer than 5 entries, or does not meet the trend condition; when it does,
\* the list is the single warning "TTFT trending upward".
C10_NoConditionOnlyTrend ==
    (pc = "analyzed" /\ NoRuleCondition(current)) =>
        IF TrendCondition(current, history)
        THEN /\ Len(recs) = 1
             /\ recs[1].severity = "warning"
             /\ recs[1].title = "TTFT trending upward"
        ELSE recs = <<>>

\* The healthy snapshot analyzed with a history of at least 5 entries whose
\* oldest third has a nonzero average that the snapshot stays within 50% of:
\* nothing is returned.
C10_Witness ==
    /\ pc = "analyzed"
    /\ NoRuleCondition(current)
    /\ history.k # "None"
    /\ Len(history.items) >= 5
    /\ ~FEq(OldAvgTtft(history.items), PyInt(0))
    /\ recs = <<>>

-----------------------------------------------------------------------------
(* Properties of the cache rule and of the GPU rule                        *)

\* The recommendations of category cat in rs, in their order.
OfCategory(rs, cat) == SelectSeq(rs, LAMBDA r : r.category = cat)

\* rs is one recommendation, of the severity given.
OneOfSeverity(rs, severity) == Len(rs) = 1 /\ rs[1].severity = severity

\* The cache recommendations cr are those of a cache usage c.
CacheRuleOutcome(c, cr) ==
    /\ FGt(c, Rat(92, 100)) => OneOfSeverity(cr, "critical")
    /\ (FGt(c, Rat(80, 100)) /\ FLe(c, Rat(92, 100)))
           => OneOfSeverity(cr, "warning")
    /\ FLe(c, Rat(80, 100)) => cr = <<>>

\* C11: analyze returns exactly one recommendation of category cache, of
\* severity critical, when the cache usage is above 0.92; exactly one, of
\* severity warning, when it is above 0.80 and at most 0.92; and none when
\* it is at most 0.80.  A critical and a warning cache recommendation are
\* never returned together.
C11_CacheRule ==
    pc = "analyzed"
        => CacheRuleOutcome(current.gpu_cache_usage_percent,
                            OfCategory(recs, "cache"))

\* analyze has returned for a cache usage of exactly 0.92, with a warning.
C11_Witness ==
    /\ pc = "analyzed"
    /\ FEq(current.gpu_cache_usage_percent, Rat(92, 100))
    /\ OneOfSeverity(OfCategory(recs, "cache"), "warning")

\* The utilization recommendations ur are those of the snapshot snap.
GpuRuleOutcome(snap, ur) ==
    IF /\ FEq(snap.gpu_utilization_percent, PyInt(0))
       /\ FEq(snap.gpu_memory_total_gb, PyInt(0))
    THEN ur = <<>>
    ELSE IF /\ FLt(snap.gpu_utilization_percent, Rat(30, 100))
            /\ FGt(snap.requests_running, PyInt(0))
    THEN OneOfSeverity(ur, "info")
    ELSE ur = <<>>

\* C12: when the GPU utilization and the GPU memory total of the snapshot
\* are both zero, analyze returns no recommendation of category
\* utilization; when at least one of them is nonzero it returns exactly one,
\* of severity info, if the utilization is below 0.30 and requests are
\* running, and none otherwise.
C12_GpuRule ==
    pc = "analyzed" => GpuRuleOutcome(current, OfCategory(recs, "utilization"))

\* analyze has returned an underutilization recommendation for a
\* utilization of exactly 0 with a memory total that is not zero.
C12_Witness ==
    /\ pc = "analyzed"
    /\ FEq(current.gpu_utilization_percent, PyInt(0))
    /\ ~FEq(current.gpu_memory_total_gb, PyInt(0))
    /\ OneOfSeverity(OfCategory(recs, "utilization"), "info")

-----------------------------------------------------------------------------
(* Properties of advise                                                    *)

\* advise has returned.
Advised == pc \in {"analyze", "analyzed"}

\* The suggestions of ss for the flag given, in their order.
WithFlag(ss, flag) == SelectSeq(ss, LAMBDA s : s.flag = flag)

\* ss is one suggestion, of the priority given.
OneOfPriority(ss, priority) == Len(ss) = 1 /\ ss[1].priority = priority

\* The batch is above the utilization util and more than 3 requests wait.
BatchAboveWithBacklog(snap, util) ==
    /\ ~FEq(snap.max_batch_size, PyInt(0))
    /\ FGt(FDiv(snap.avg_batch_size, snap.max_batch_size), util)
    /\ FGt(snap.requests_waiting, PyInt(3))

\* ms is the one suggestion to increase the cap, of priority 1.
OneIncrease(ms) ==
    /\ OneOfPriority(ms, 1)
    /\ StartsWith(ms[1].suggested_action, "Increase")

\* C13: for a snapshot whose batch utilization avg_batch_size /
\* max_batch_size is above 0.9 with more than 3 requests waiting, analyze
\* returns exactly one recommendation of category batching, of severity
\* warning, and advise returns exactly one suggestion for --max-num-seqs,
\* of priority 1, whose action increases the cap; no call of advise returns
\* the decrease and the increase suggestion together.
C13_FullBatchWithBacklog ==
    /\ Advised => Len(WithFlag(suggestions, "--max-num-seqs")) <= 1
    /\ (Advised /\ BatchAboveWithBacklog(current, Rat(9, 10)))
           => OneIncrease(WithFlag(suggestions, "--max-num-seqs"))
    /\ (pc = "analyzed" /\ BatchAboveWithBacklog(current, Rat(9, 10)))
           => OneOfSeverity(OfCategory(recs, "batching"), "warning")

\* Both calls have returned for avg_batch_size 15, max_batch_size 16 and 5
\* requests waiting, with the increase suggestion and the batching warning.
C13_Witness ==
    /\ pc = "analyzed"
    /\ FEq(current.avg_batch_size, PyInt(15))
    /\ FEq(current.max_batch_size, PyInt(16))
    /\ FEq(current.requests_waiting, PyInt(5))
    /\ OneIncrease(WithFlag(suggestions, "--max-num-seqs"))
    /\ OneOfSeverity(OfCategory(recs, "batching"), "warning")

\* C14: the list advise returns is sorted by non-decreasing priority.
C14_SortedByPriority ==
    \A i, j \in 1..Len(suggestions) :
        i < j => suggestions[i].priority <= suggestions[j].priority

\* advise has returned a list in which the suggestion of the first
\* heuristic, of priority 3, follows suggestions of later heuristics.
C14_Witness ==
    /\ Advised
    /\ \E i \in 2..Len(suggestions) :
           /\ suggestions[i].flag = "--max-num-seqs"
           /\ suggestions[i].priority = 3
           /\ suggestions[i - 1].priority < 3

\* C15: advise returns exactly one suggestion for --max-model-len, of
\* priority 1, when the cache usage is above 0.85 and none when it is at
\* most 0.85; a snapshot with cache usage 0.95 gets that suggestion from
\* advise and a critical cache recommendation from analyze.
C15_MaxModelLen ==
    /\ Advised
           => IF FGt(current.gpu_cache_usage_percent, Rat(85, 100))
              THEN OneOfPriority(WithFlag(suggestions, "--max-model-len"), 1)
              ELSE WithFlag(suggestions, "--max-model-len") = <<>>
    /\ (pc = "analyzed" /\ FEq(current.gpu_cache_usage_percent, Rat(95, 100)))
           => /\ OneOfPriority(WithFlag(suggestions, "--max-model-len"), 1)
              /\ OneOfSeverity(OfCategory(recs, "cache"), "critical")

\* Both calls have returned for a cache usage of 0.95, with the
\* --max-model-len suggestion and the critical cache recommendation.
C15_Witness ==
    /\ pc = "analyzed"
    /\ FEq(current.gpu_cache_usage_percent, Rat(95, 100))
    /\ Len(WithFlag(suggestions, "--max-model-len")) = 1
    /\ OneOfSeverity(OfCategory(recs, "cache"), "critical")

\* The memory total is not zero, used / total is below 0.60 and the cache
\* usage is above 0.80.
MemoryCapCondition(snap) ==
    /\ ~FEq(snap.gpu_memory_total_gb, PyInt(0))
    /\ FLt(FDiv(snap.gpu_memory_used_gb, snap.gpu_memory_total_gb),
           Rat(60, 100))
    /\ FGt(snap.gpu_cache_usage_percent, Rat(80, 100))

\* The memory total is not zero, used / total is above 0.90 and the cache
\* usage is above 0.85.
QuantizationCondition(snap) ==
    /\ ~FEq(snap.gpu_memory_total_gb, PyInt(0))
    /\ FGt(FDiv(snap.gpu_memory_used_gb, snap.gpu_memory_total_gb),
           Rat(90, 100))
    /\ FGt(snap.gpu_cache_usage_percent, Rat(85, 100))

\* The suggestions ss for one flag: one of the priority given when the
\* condition holds, none when it does not.
EmittedIff(condition, ss, priority) ==
    IF condition THEN OneOfPriority(ss, priority) ELSE ss = <<>>

\* C16: advise returns the --gpu-memory-utilization suggestion (priority 1)
\* exactly when the GPU memory total is nonzero, used / total is below 0.60
\* and the cache usage is above 0.80, and the quantization suggestion
\* (priority 4) exactly when the total is nonzero, used / total is above
\* 0.90 and the cache usage is above 0.85; with a total of 0 it returns
\* neither, and it never returns both.
C16_MemorySuggestions ==
    Advised
        => /\ EmittedIff(MemoryCapCondition(current),
                         WithFlag(suggestions, "--gpu-memory-utilization"), 1)
           /\ EmittedIff(QuantizationCondition(current),
                         WithFlag(suggestions,
                                  "--quantization awq / --quantization gptq"),
                         4)
           /\ \/ WithFlag(suggestions, "--gpu-memory-utilization") = <<>>
              \/ WithFlag(suggestions,
                          "--quantization awq / --quantization gptq") = <<>>

\* advise has returned the --gpu-memory-utilization suggestion for a cache
\* usage between 0.80 and 0.85.
C16_Witness ==
    /\ Advised
    /\ FLe(current.gpu_cache_usage_percent, Rat(85, 100))
    /\ Len(WithFlag(suggestions, "--gpu-memory-utilization")) = 1

\* The cache usage is at most 0.80 and the batch is not above a
\* utilization of 0.85 with more than 3 requests waiting.
Healthy(snap) ==
    /\ FLe(snap.gpu_cache_usage_percent, Rat(80, 100))
    /\ ~BatchAboveWithBacklog(snap, Rat(85, 100))

\* C17: for a snapshot whose cache usage is at most 0.80 and whose batch
\* utilization is not above 0.85 with more than 3 requests waiting, advise
\* returns no suggestion of priority 1.
C17_HealthyNoUrgent ==
    (Advised /\ Healthy(current))
        => \A i \in 1..Len(suggestions) : suggestions[i].priority # 1

\* advise has returned suggestions, none of them urgent, for such a
\* snapshot.
C17_Witness ==
    /\ Advised
    /\ Healthy(current)
    /\ Len(suggestions) >= 2

-----------------------------------------------------------------------------
(* Properties of compare                                                   *)

\* compare has returned or raised.
CompareLeft == pc \in {"compared", "raised"}

\* The report of an empty window, with the counts given.
Sentinel(before_count, after_count) ==
    ComparisonReport(before_count, after_count, <<>>,
                     "Need snapshots in both windows to compare.")

\* C18 as stated: compare with an empty before window or an empty after
\* window (or both) does not raise and returns a report with a before count
\* and an after count of zero, no deltas and the summary "Need snapshots in
\* both windows to compare.".
C18_SentinelZeroCounts ==
    (CompareLeft /\ (before = <<>> \/ after = <<>>))
        => pc = "compared" /\ report = Sentinel(0, 0)

\* C18 as amended: compare with an empty before window or an empty after
\* window (or both) does not raise and returns a report whose before count
\* and after count are the lengths of the two windows (zero for an empty
\* one), with no deltas and the summary "Need snapshots in both windows to
\* compare.".
C18_SentinelWindowLengths ==
    (CompareLeft /\ (before = <<>> \/ after = <<>>))
        => pc = "compared" /\ report = Sentinel(Len(before), Len(after))

\* compare has returned the sentinel for an empty before window and an
\* after window that is not empty.
C18_Witness ==
    /\ pc = "compared"
    /\ before = <<>>
    /\ after # <<>>
    /\ report.deltas = <<>>
    /\ report.after_count = Len(after)

\* The arithmetic mean of the attribute attr over the window.
Mean(window, attr) ==
    FDiv(SumAttr(window, attr, Len(window)), PyInt(Len(window)))

\* Delta d carries, for the metric given, the means over the two windows,
\* their difference and the percentage difference.
CarriesMeans(d, metric) ==
    /\ d.name = metric[2]
    /\ FEq(d.before, Mean(before, metric[1]))
    /\ FEq(d.after, Mean(after, metric[1]))
    /\ FEq(d.delta, FSub(d.after, d.before))
    /\ FEq(d.delta_pct,
           IF IsZero(d.before) THEN PyInt(0)
           ELSE FMul(FDiv(d.delta, FAbs(d.before)), PyInt(100)))

\* Every tracked metric is a field of every snapshot of the two windows.
TrackedAreFields ==
    \A i \in 1..Len(_METRICS) :
        /\ \A j \in 1..Len(before) : _METRICS[i][1] \in DOMAIN before[j]
        /\ \A j \in 1..Len(after) : _METRICS[i][1] \in DOMAIN after[j]

\* C19: for two windows that are not empty, compare returns a report whose
\* counts are the lengths of the windows and whose deltas are the 13
\* tracked metrics in their order, each with the mean of the metric over
\* each window, delta = after mean - before mean and the percentage delta
\* delta / |before mean| * 100 (0 when the before mean is zero); every
\* tracked metric is a field of the snapshots.
C19_ThirteenDeltas ==
    (CompareLeft /\ before # <<>> /\ after # <<>>)
        => /\ TrackedAreFields
           /\ pc = "compared"
           /\ report.before_count = Len(before)
           /\ report.after_count = Len(after)
           /\ Len(report.deltas) = 13
           /\ \A i \in 1..13 : CarriesMeans(report.deltas[i], _METRICS[i])

\* Delta d is classified as the polarity lower_is_better asks.
Classified(d, lower_is_better) ==
    IF FLt(FAbs(d.delta_pct), Num(1)) THEN d.improved = None
    ELSE d.improved = PyBool(IF lower_is_better THEN FLt(d.delta, PyInt(0))
                             ELSE FGt(d.delta, PyInt(0)))

\* C20: compare on two windows that are not empty returns deltas of which
\* each is classified by noise and polarity: improved is unknown iff the
\* absolute percentage delta is below 1 (as it is whenever the before mean
\* is zero); otherwise it is true iff the metric is lower-is-better and
\* delta < 0, or higher-is-better and delta > 0, and false in the remaining
\* case.
C20_DeltasClassified ==
    (CompareLeft /\ before # <<>> /\ after # <<>>)
        => /\ pc = "compared"
           /\ report.deltas # <<>>
           /\ \A i \in 1..Len(report.deltas) :
                  Classified(report.deltas[i], _METRICS[i][3])

\* The number of deltas whose improved is the value given.
NumberImproved(deltas, improved) ==
    Cardinality({i \in 1..Len(deltas) : deltas[i].improved = improved})

\* The summary of N improved and M regressed deltas, by the four branches.
SummaryOf(N, M) ==
    CASE N >= 1 /\ M = 0 ->
             ToString(N) \o " metrics improved, no regressions."
      [] N = 0 /\ M >= 1 ->
             ToString(M) \o " metrics regressed, no improvements."
      [] N >= 1 /\ M >= 1 ->
             ToString(N) \o " improved, " \o ToString(M)
                 \o " regressed -- mixed results."
      [] N = 0 /\ M = 0 -> "No significant changes detected."

\* C21: compare on two windows that are not empty returns a report whose
\* summary is the one of the four branches on the numbers N of improved and
\* M of regressed deltas: "N metrics improved, no regressions." for N >= 1
\* and M = 0, "M metrics regressed, no improvements." for N = 0 and
\* M >= 1, "N improved, M regressed -- mixed results." for both >= 1, and
\* "No significant changes detected." for N = M = 0, which is the summary
\* of two equal windows.
C21_SummaryBranches ==
    (CompareLeft /\ before # <<>> /\ after # <<>>)
        => /\ pc = "compared"
           /\ report.summary
                  = SummaryOf(NumberImproved(report.deltas, PyBool(TRUE)),
                              NumberImproved(report.deltas, PyBool(FALSE)))
           /\ before = after
                  => report.summary = "No significant changes detected."

-----------------------------------------------------------------------------
(* Properties of the calls on shared inputs                                *)

\* What the callers share.
SharedInputs == <<families, current, history, before, after>>

\* Every result held is the one its call returns on the shared inputs.
ResultsOfInputs ==
    /\ \A i \in 1..Len(result) :
           result[i].value = get_histogram_percentile(families, HistName,
                                                      result[i].percentile)
    /\ recs \in {<<>>, analyze(current, history)}
    /\ suggestions \in {<<>>, advise(current)}
    /\ report \in {None, compare(before, after).report}

\* C22: a call of get_histogram_percentile, analyze, advise or compare
\* leaves the family map (with the order of each family's samples), the
\* snapshot, the history and the two windows as they were, and whatever the
\* order of the calls of several callers, every result is the one the call
\* returns on those inputs.
C22_InputsUnchanged ==
    /\ [](pc = "shared" => ResultsOfInputs)
    /\ [][pc = "shared" => SharedInputs' = SharedInputs]_vars

\* The four functions have returned on shared inputs, the percentile twice
\* on a family whose samples are not in ascending order of value.
C22_Witness ==
    /\ pc = "shared"
    /\ Len(result) = MaxCalls
    /\ recs # <<>>
    /\ suggestions # <<>>
    /\ report # None
    /\ families[HistName].samples # SortByValue(families[HistName].samples)

-----------------------------------------------------------------------------
(* Properties of the parser: samples and families                          *)

\* The name, label block and value token of line i.
FieldsOfLine(i) == SampleFields(Strip(lines[i]))

\* Fields f of the stripped line are those of an accepted sample: the line
\* is neither blank nor a comment, it has a name and a value token, and
\* float() reads the token.
AcceptedFields(line, f) ==
    /\ line # ""
    /\ ~StartsWith(line, "#")
    /\ f.kind = "sample"
    /\ ParseFloat(f.value_str).k # "ValueError"

\* Line i is an accepted sample.
Accepted(i) == AcceptedFields(Strip(lines[i]), FieldsOfLine(i))

\* The sample a line of fields f is accepted as.
SampleOfFields(f) ==
    MetricSample(f.name, parse_labels(f.label_str), ParseFloat(f.value_str))

\* The accepted lines among the first n, in text order.
AcceptedLines(n) == SelectSeq([i \in 1..n |-> i], LAMBDA i : Accepted(i))

\* The samples of the accepted lines acc, in that order.
SamplesOfLines(acc) == [j \in 1..Len(acc) |-> SampleOfFields(FieldsOfLine(acc[j]))]

\* The samples among all filed under base, in that order.
FiledUnder(base, all) == SelectSeq(all, LAMBDA s : BaseName(s.name) = base)

\* The families are those of the accepted samples all, each sample once,
\* under its base name and in the order of all.
FamiliesHold(all) ==
    /\ DOMAIN families = {BaseName(all[j].name) : j \in 1..Len(all)}
    /\ \A base \in DOMAIN families :
           families[base].samples = FiledUnder(base, all)

\* The families hold the accepted samples of the first n lines, each once,
\* under its base name and in text order.
SamplesInTextOrder(n) == FamiliesHold(SamplesOfLines(AcceptedLines(n)))

\* C23: the family map a parse returns is the one a second parse of the same
\* text returns, and every accepted sample of the text is in one family
\* only, that of its base name, in the order of the text.
C23_SamplesOnceInOrder ==
    pc = "returned" =>
        /\ SamplesInTextOrder(Len(lines))
        /\ families = parse_prometheus_text(text).families

\* A parse has returned a family of two different samples and dropped no
\* line.
C23_Witness ==
    /\ pc = "returned"
    /\ \A i \in 1..Len(lines) : Accepted(i)
    /\ \E base \in DOMAIN families :
           /\ Len(families[base].samples) = 2
           /\ families[base].samples[1] # families[base].samples[2]

-----------------------------------------------------------------------------
(* Properties of the store                                                 *)

\* The store was created on a new file: no row is of an earlier run.
NewFile == \A i \in 1..Len(store.rows) : store.rows[i].timestamp >= 1

\* Snapshot s carries in every stored attribute the value of snapshot z.
SameStoredFields(s, z) ==
    \A i \in 1..Len(Columns) :
        /\ Columns[i][2] \in DOMAIN s
        /\ Columns[i][2] \in DOMAIN z
        /\ s[Columns[i][2]] = z[Columns[i][2]]

\* The snapshots are in ascending order of timestamp.
AscendingTimestamps(items) ==
    \A i, j \in 1..Len(items) : i < j => items[i].timestamp <= items[j].timestamp

\* C24: save and get_recent return; a store created on a new file counts as
\* many rows as save was called; what get_recent returns after a save is in
\* ascending order of timestamp and holds the snapshot saved last with the
\* same value in every stored field, the four cost and SLA fields included.
C24_SaveAndReadBack ==
    pc = "store" =>
        /\ exc = "none"
        /\ NewFile => count(store.rows) = saves
        /\ loaded # None =>
              /\ AscendingTimestamps(loaded.items)
              /\ saves > 0 /\ loaded.items # <<>> =>
                    \E i \in 1..Len(loaded.items) :
                        SameStoredFields(loaded.items[i], current)

-----------------------------------------------------------------------------
(* Properties of the mock server                                           *)

\* C25: every call of snapshot on one server returns a snapshot, and from
\* each snapshot to the next the prompt and generation token totals
\* strictly increase and requests_completed does not decrease.
C25_TotalsIncrease ==
    pc = "server" =>
        /\ exc = "none"
        /\ Len(result) = server._tick
        /\ \A i \in 1..(Len(result) - 1) :
              /\ FGt(result[i + 1].prompt_tokens_total,
                     result[i].prompt_tokens_total)
              /\ FGt(result[i + 1].generation_tokens_total,
                     result[i].generation_tokens_total)
              /\ FGe(result[i + 1].requests_completed,
                     result[i].requests_completed)

-----------------------------------------------------------------------------
(* Properties of get_histogram_percentile: the total count                 *)

\* The buckets with a boundary, in arrival order.
BoundaryBuckets ==
    SelectSeq([i \in 1..Len(HistSamples) |-> i], LAMBDA i : IsBoundary(i))

\* The estimate at p from boundary buckets of the positions idx and the
\* total count total.
EstimateWith(idx, total, p) ==
    EstimateFrom([buckets |-> [j \in 1..Len(idx) |->
                                  <<BoundOf(idx[j]), CountOf(idx[j])>>],
                  total_count |-> total], p)

\* C26: the total count the estimate is made with is the value of the last
\* sample, in arrival order, that is the +Inf bucket or a _count sample,
\* whichever of the two kinds it is.
C26_LastTotalWins ==
    \A r \in 1..Len(result) :
        result[r] = IF Totals = {} THEN None
                    ELSE EstimateWith(BoundaryBuckets, TotalCount, Percentiles[r])

\* Both kinds are there with different values, the _count sample after the
\* +Inf bucket, and every estimate was made with the value of _count.
C26_Witness ==
    /\ Len(result) = Len(Percentiles)
    /\ \E i, j \in Totals :
          /\ i < j
          /\ EndsWith(HistSamples[i].name, "_bucket")
          /\ EndsWith(HistSamples[j].name, "_count")
          /\ CountOf(i) # CountOf(j)
          /\ \A k \in Totals : k <= j
    /\ \A r \in 1..Len(result) : IsFloat(result[r])

-----------------------------------------------------------------------------
(* Properties of the trend rule                                            *)

\* The warnings of the trend rule among rs.
TrendWarnings(rs) ==
    SelectSeq(rs, LAMBDA r : r.title = "TTFT trending upward"
                             /\ r.severity = "warning")

\* The TTFT p95 of the first floor(len/3) entries of the history.
OldestThird(items) ==
    [i \in 1..(Len(items) \div 3) |-> items[i].time_to_first_token_p95]

RECURSIVE SumOf(_)
SumOf(values) ==
    IF values = <<>> THEN PyInt(0)
    ELSE FAdd(SumOf(SubSeq(values, 1, Len(values) - 1)), values[Len(values)])

\* The arithmetic mean of a non-empty sequence of values.
MeanOf(values) == FDiv(SumOf(values), PyInt(Len(values)))

\* The history has at least 5 entries.
LongEnough(hist) == hist.k # "None" /\ Len(hist.items) >= 5

\* value exceeds avg by more than 50%.
ExceedsByHalf(value, avg) == FGt(FSub(value, avg), FMul(Rat(1, 2), avg))

\* C27 as stated: with a history of at least 5 entries, whose oldest third
\* is then not empty, analyze emits one warning "TTFT trending upward" iff
\* the current TTFT p95 exceeds the average TTFT p95 of the oldest third by
\* more than 50%; with a shorter history or none it emits no such warning.
C27_TrendIffExceeds ==
    pc = "analyzed" =>
        IF LongEnough(history)
        THEN /\ OldestThird(history.items) # <<>>
             /\ Len(TrendWarnings(recs)) =
                    IF ExceedsByHalf(current.time_to_first_token_p95,
                                     MeanOf(OldestThird(history.items)))
                    THEN 1 ELSE 0
        ELSE TrendWarnings(recs) = <<>>

\* C27, amended: with a history of at least 5 entries, whose oldest third
\* is then not empty, analyze emits one warning "TTFT trending upward" iff
\* the average TTFT p95 of the oldest third is not zero and the current
\* TTFT p95 exceeds it by more than 50%; with a shorter history or none it
\* emits no such warning.
C27_TrendIffExceedsNonzero ==
    pc = "analyzed" =>
        IF LongEnough(history)
        THEN /\ OldestThird(history.items) # <<>>
             /\ Len(TrendWarnings(recs)) =
                    IF /\ ~IsZero(MeanOf(OldestThird(history.items)))
                       /\ ExceedsByHalf(current.time_to_first_token_p95,
                                        MeanOf(OldestThird(history.items)))
                    THEN 1 ELSE 0
        ELSE TrendWarnings(recs) = <<>>

\* analyze has returned the warning on a history of 5 entries or more whose
\* oldest third has a nonzero average and whose later entries would bring
\* the average down.
C27_Witness ==
    /\ pc = "analyzed"
    /\ LongEnough(history)
    /\ ~IsZero(MeanOf(OldestThird(history.items)))
    /\ Len(TrendWarnings(recs)) = 1
    /\ IsZero(history.items[Len(history.items)].time_to_first_token_p95)

-----------------------------------------------------------------------------
(* Properties of the parser: type and help text of a family                *)

\* Line i is the directive of the kind given ("# TYPE " or "# HELP ") that
\* names base and carries a text.
IsDirectiveFor(i, kind, base) ==
    /\ StartsWith(Strip(lines[i]), kind \o base \o " ")
    /\ Len(Strip(lines[i])) > Len(kind \o base \o " ")

\* The directives of the kind given for base among the lines before line n.
DirectivesBefore(n, kind, base) ==
    {i \in 1..(n - 1) : IsDirectiveFor(i, kind, base)}

\* The text of the last of the directives ds, or default when there is none.
LastTextOf(ds, kind, base, default) ==
    IF ds = {} THEN default
    ELSE SliceFrom(Strip(lines[CHOOSE i \in ds : \A j \in ds : j <= i]),
                   Len(kind \o base \o " "))

\* The first of the first n lines that is an accepted sample filed under
\* base.
FirstSampleOf(base, n) ==
    CHOOSE i \in 1..n :
        /\ Accepted(i) /\ BaseName(FieldsOfLine(i).name) = base
        /\ \A j \in 1..(i - 1) :
              ~(Accepted(j) /\ BaseName(FieldsOfLine(j).name) = base)

\* The base names of the accepted samples among the first n lines.
AcceptedBases(n) ==
    {BaseName(FieldsOfLine(i).name) : i \in {j \in 1..n : Accepted(j)}}

\* Family fam of base name base has the type and help text of the last
\* directives for base before line first.
TypedAsOf(fam, base, first) ==
    /\ fam.metric_type = LastTextOf(DirectivesBefore(first, "# TYPE ", base),
                             "# TYPE ", base, "untyped")
    /\ fam.help_text = LastTextOf(DirectivesBefore(first, "# HELP ", base),
                             "# HELP ", base, "")

\* C28: a family is there when the text has an accepted sample of its base
\* name, created at the first of them, with the type and the help text of
\* the last TYPE and HELP directives that name its base name and come
\* before that sample, "untyped" and "" when there is none; directives
\* naming another name or coming later do not count.
C28_TypeFromEarlierDirective ==
    pc = "returned" =>
        /\ DOMAIN families = AcceptedBases(Len(lines))
        /\ \A base \in DOMAIN families :
               TypedAsOf(families[base], base, FirstSampleOf(base, Len(lines)))

\* A parse has returned a family typed by a directive that comes before its
\* first sample.
C28_Witness ==
    /\ pc = "returned"
    /\ \E base \in DOMAIN families :
           /\ families[base].metric_type # "untyped"
           /\ DirectivesBefore(FirstSampleOf(base, Len(lines)), "# TYPE ", base) # {}

-----------------------------------------------------------------------------
(* Properties of the divisions                                             *)

\* What a division by zero leaves in place of a value.
ZeroDivision == [k |-> "ZeroDivisionError"]

\* No field of the record r is the outcome of a division by zero.
NoFieldDividedByZero(r) == \A f \in DOMAIN r : r[f] # ZeroDivision

\* C29: no call of the estimator, of collect's assembly, of analyze, of
\* advise or of compare divides by zero: no value returned is the outcome
\* of such a division, the batch rule and the batch heuristic have acted
\* only on a nonzero max_batch_size, the memory heuristics only on a nonzero
\* memory total, the trend rule only on a non-empty slice of nonzero
\* average, and a delta has a percentage other than 0 only for a nonzero
\* before mean.
C29_NoZeroDivision ==
    pc = "shared" =>
        /\ exc # "ZeroDivisionError"
        /\ \A i \in 1..Len(result) : result[i].value # ZeroDivision
        /\ snapshot # NoSnapshot => NoFieldDividedByZero(snapshot)
        /\ report # None =>
              \A i \in 1..Len(report.deltas) :
                  /\ \A f \in {"before", "after", "delta", "delta_pct"} :
                         report.deltas[i][f] # ZeroDivision
                  /\ IsZero(report.deltas[i].before)
                         => IsZero(report.deltas[i].delta_pct)
        /\ OfCategory(recs, "batching") # <<>> => ~IsZero(current.max_batch_size)
        /\ WithFlag(suggestions, "--max-num-seqs") # <<>>
              => ~IsZero(current.max_batch_size)
        /\ WithFlag(suggestions, "--gpu-memory-utilization") # <<>>
              => ~IsZero(current.gpu_memory_total_gb)
        /\ TrendWarnings(recs) # <<>> =>
              /\ LongEnough(history)
              /\ OldestThird(history.items) # <<>>
              /\ ~IsZero(MeanOf(OldestThird(history.items)))

\* Every operation has returned on inputs that bring its denominator to
\* zero: an estimate interpolated in a first bucket of count 0, a snapshot
\* collected without throughput, recommendations and suggestions for a
\* snapshot without batch cap and memory total against a history of
\* average 0, and a report for an empty before window.
C29_Witness ==
    /\ pc = "shared"
    /\ Len(result) = MaxCalls
    /\ \A i \in 1..Len(result) : IsFloat(result[i].value)
    /\ HistSamples[1].value = Num(0)
    /\ snapshot # NoSnapshot
    /\ IsZero(snapshot.tokens_per_second)
    /\ IsZero(current.max_batch_size)
    /\ IsZero(current.gpu_memory_total_gb)
    /\ recs # <<>>
    /\ suggestions # <<>>
    /\ LongEnough(history)
    /\ IsZero(MeanOf(OldestThird(history.items)))
    /\ report # None
    /\ before = <<>>

-----------------------------------------------------------------------------
(* Properties of the polling drivers                                       *)

\* The timestamps of the rows this run saved (the row of an earlier run
\* has the instant 0).
SavedInstants ==
    LET saved == SelectSeq(store.rows, LAMBDA r : r.timestamp >= 1)
    IN  [i \in 1..Len(saved) |-> saved[i].timestamp]

\* The last n of the snapshots collected so far, oldest first.
LastCollected(n) == [i \in 1..n |-> Collected(collected - n + i)]

\* C30: the polling drivers stop on their own exactly when five calls of
\* collect in a row have failed: the counter of consecutive failures is in
\* 0..5, a call that returns resets it, and a driver that has not seen five
\* failures in a row is still polling unless it was interrupted; each
\* snapshot collected is in the history once (the last 30, oldest first)
\* and was saved once to the store that was given, and a failed call adds
\* neither.
C30_StopsOnlyAfterFiveFailures ==
    /\ consecutive_errors \in 0..5
    /\ pc \notin {"poll", "interrupted"} <=> consecutive_errors = 5
    /\ exc = "none"
    /\ driver = "run_dashboard" =>
           history.items =
               LastCollected(IF collected < HISTORY_SIZE THEN collected
                             ELSE HISTORY_SIZE)
    /\ store # None => SavedInstants = [i \in 1..collected |-> i]

====
